---- MODULE Spec2Model ----
(***************************************************************************)
(* peak-acl: the FIPA-Request conversation manager                         *)
(* (peak_acl/runtime/conversation.py) running on an asyncio event loop,    *)
(* and the inbound HTTP-MTP server (peak_acl/transport/http_mtp.py).       *)
(***************************************************************************)
EXTENDS Integers, Sequences, FiniteSets, TLC

(***************************************************************************)
(* Bounds                                                                  *)
(***************************************************************************)
\* number of on_message calls explored in one behaviour
MaxCalls == 2
\* number of send_request calls explored in one behaviour
MaxConvs == 2

(***************************************************************************)
(* Values                                                                  *)
(***************************************************************************)
\* conversation ids that _gen_conv_id can hand out (sender name + random hex)
AllConvIds == <<"a1", "a2", "a3", "a4", "a5", "a6">>
ConvIds == {AllConvIds[i] : i \in 1..MaxConvs}
\* a conversation id that no send_request ever generated
StrangerId == "zz"

\* Optional[str] is a sequence of length 0 (None) or 1
None == <<>>
Some(x) == <<x>>

\* the timeout argument of send_request: None, 0 or a positive delay
Timeouts == {None, Some(0), Some(5)}

\* performative tokens as they arrive on the wire
RawPerformatives == {"agree", "REFUSE", "Inform", "failure", "not_understood"}

\* the absent message (a slot holding None)
NoMsg == [performative |-> "", conversation_id |-> None, reply_with |-> None]

\* AclMessage restricted to the slots the manager reads and writes
AclMessage(perf, cid) ==
    [performative |-> perf, conversation_id |-> cid, reply_with |-> None]

\* the messages fed to on_message: every performative for the ids send_request
\* hands out, and messages without a usable conversation id
InboundMsgs ==
    {AclMessage(p, Some(c)) : p \in RawPerformatives, c \in ConvIds}
    \cup {AclMessage(p, c) : p \in {"REFUSE", "Inform"},
                             c \in {None, Some(""), Some(StrangerId)}}

\* message/acl.py _norm_performative: strip, upper-case, "_" -> "-"
_norm_performative(p) ==
    CASE p = "agree" -> "AGREE"
      [] p = "REFUSE" -> "REFUSE"
      [] p = "Inform" -> "INFORM"
      [] p = "failure" -> "FAILURE"
      [] p = "not_understood" -> "NOT-UNDERSTOOD"
      [] p = "request" -> "REQUEST"
      [] p = "inform" -> "INFORM"
      [] p = "refuse" -> "REFUSE"
      [] p = "inform_ref" -> "INFORM-REF"
      [] OTHER -> p

performative_upper(acl) == _norm_performative(acl.performative)

(***************************************************************************)
(* asyncio.Future                                                          *)
(***************************************************************************)
NewFuture == [status |-> "pending", msg |-> NoMsg, exc |-> ""]

done(f) == f.status # "pending"

\* Future.set_result: InvalidStateError on a future that is already done
set_result(f, m) ==
    IF f.status # "pending"
    THEN [fut |-> f, raised |-> TRUE]
    ELSE [fut |-> [status |-> "result", msg |-> m, exc |-> ""], raised |-> FALSE]

\* Future.set_exception: InvalidStateError on a future that is already done
set_exception(f, e) ==
    IF f.status # "pending"
    THEN [fut |-> f, raised |-> TRUE]
    ELSE [fut |-> [status |-> "exception", msg |-> NoMsg, exc |-> e], raised |-> FALSE]

(***************************************************************************)
(* HTTP-MTP: multipart bodies as token sequences                           *)
(***************************************************************************)
\* a token of a raw body or of a Content-Type header
Tok(t, v) == [t |-> t, v |-> v]
Mk(b) == Tok("marker", b)       \* the bytes "--" + boundary
DD == Tok("dashes", "--")       \* the bytes "--" closing the final marker
CRLF == Tok("ws", "CRLF")
LF == Tok("ws", "LF")
CR == Tok("ws", "CR")
Hdr(h) == Tok("hdr", h)         \* one header line
Txt(x) == Tok("text", x)        \* payload text without line breaks
Byte(x) == Tok("byte", x)       \* a payload of one byte
AclTxt(chars) == Tok("acl", chars)   \* an ACL string, as characters and words
\* Envelope.to_xml(): the XML document of an envelope with these agent names
EnvXml(to, from) == Tok("xml", [to |-> to, from |-> from])

IsWs(tok) == tok.t = "ws"

\* bytes.lstrip(), bytes.rstrip(), bytes.strip()
RECURSIVE lstrip(_)
lstrip(s) == IF s # <<>> /\ IsWs(Head(s)) THEN lstrip(Tail(s)) ELSE s
RECURSIVE rstrip(_)
rstrip(s) ==
    IF s # <<>> /\ IsWs(s[Len(s)]) THEN rstrip(SubSeq(s, 1, Len(s) - 1)) ELSE s
strip(s) == rstrip(lstrip(s))

\* index of the first element of s satisfying P(s, i), 0 when there is none
FirstIndex(s, P(_, _)) ==
    IF \E i \in 1..Len(s) : P(s, i)
    THEN CHOOSE i \in 1..Len(s) : P(s, i) /\ \A j \in 1..(i - 1) : ~P(s, j)
    ELSE 0

\* bytes.split(marker)
RECURSIVE split(_, _)
\* the pieces of s when the first marker sits at index i (0: no marker)
SplitAt(s, m, i) ==
    IF i = 0 THEN <<s>>
    ELSE <<SubSeq(s, 1, i - 1)>> \o split(SubSeq(s, i + 1, Len(s)), m)
split(s, m) ==
    LET IsM(q, i) == q[i] = m IN SplitAt(s, m, FirstIndex(s, IsM))

\* "hdr, body = c.split(b'\r\n\r\n', 1)", else on b"\n\n", else no headers
HeaderBodyAt(c, i, j) ==
    IF i # 0
    THEN [hdr |-> SubSeq(c, 1, i - 1), body |-> SubSeq(c, i + 2, Len(c))]
    ELSE IF j # 0
         THEN [hdr |-> SubSeq(c, 1, j - 1) \o (IF c[j] = CRLF THEN <<CR>> ELSE <<>>),
               body |-> SubSeq(c, j + 2, Len(c))]
         ELSE [hdr |-> <<>>, body |-> c]
HeaderBody(c) ==
    LET IsCrlf2(q, i) == i < Len(q) /\ q[i] = CRLF /\ q[i + 1] = CRLF
        IsLf2(q, i) == i < Len(q) /\ q[i] \in {LF, CRLF} /\ q[i + 1] = LF
    IN HeaderBodyAt(c, FirstIndex(c, IsCrlf2), FirstIndex(c, IsLf2))

\* "parts.append((hdr, body.rstrip()))"
PartFrom(hb) == <<[hdr |-> hb.hdr, body |-> rstrip(hb.body)]>>

\* the loop body of _split_parts for one stripped chunk: no part, or one
PartOfStripped(c) ==
    IF c = <<>> \/ c = <<DD>> THEN <<>>
    ELSE PartFrom(HeaderBody(IF Head(c) = DD THEN lstrip(Tail(c)) ELSE c))

\* "c = c.strip()" and the loop body
PartOf(chunk) == PartOfStripped(strip(chunk))

RECURSIVE PartsOf(_)
PartsOf(chunks) ==
    IF chunks = <<>> THEN <<>> ELSE PartOf(Head(chunks)) \o PartsOf(Tail(chunks))

\* _split_parts(raw, boundary_bytes)
_split_parts(raw, boundary) == PartsOf(split(strip(raw), Mk(boundary)))

\* header lines whose lower-cased text contains application/xml, text/plain
XmlHeaders == {"Content-Type: application/xml", "content-type: APPLICATION/XML"}
PlainHeaders == {"Content-Type: text/plain"}
HasXmlType(hdr) == \E i \in 1..Len(hdr) : hdr[i].t = "hdr" /\ hdr[i].v \in XmlHeaders
HasPlainType(hdr) == \E i \in 1..Len(hdr) : hdr[i].t = "hdr" /\ hdr[i].v \in PlainHeaders

\* payload texts: XML documents start with "<?xml", ACL strings with "("
XmlTexts == {"<?xml envelope", "<?xml no-date", "<?xml broken"}
AclTexts == {"(inform :content hi)", "(inform"}

\* _guess_is_envelope, _guess_is_acl
startswith(b, texts) == b # <<>> /\ Head(b).t = "text" /\ Head(b).v \in texts
StartsXmlDoc(b) == b # <<>> /\ Head(b).t = "xml"
SniffsXml(b) == startswith(b, XmlTexts) \/ StartsXmlDoc(b)
_guess_is_envelope(body) == SniffsXml(lstrip(body))
StartsParen(b) ==
    b # <<>> /\ Head(b).t = "acl" /\ Head(b).v # <<>> /\ Head(b).v[1] = "("
SniffsAcl(b) == startswith(b, AclTexts) \/ StartsParen(b)
_guess_is_acl(body) == SniffsAcl(lstrip(body))

\* 1) Content-Type pass of _extract_envelope_acl; 0 stands for None
RECURSIVE ByContentType(_, _, _, _)
ByContentType(parts, i, e, a) ==
    IF i > Len(parts) THEN [e |-> e, a |-> a]
    ELSE IF HasXmlType(parts[i].hdr) /\ e = 0 THEN ByContentType(parts, i + 1, i, a)
    ELSE IF HasPlainType(parts[i].hdr) /\ a = 0 THEN ByContentType(parts, i + 1, e, i)
    ELSE ByContentType(parts, i + 1, e, a)

\* 2) heuristics pass
RECURSIVE BySniffing(_, _, _, _)
BySniffing(parts, i, e, a) ==
    IF i > Len(parts) THEN [e |-> e, a |-> a]
    ELSE IF e = 0 /\ _guess_is_envelope(parts[i].body) THEN BySniffing(parts, i + 1, i, a)
    ELSE IF a = 0 /\ _guess_is_acl(parts[i].body) THEN BySniffing(parts, i + 1, e, i)
    ELSE BySniffing(parts, i + 1, e, a)

\* "body is not env_bytes": two parts hold the same bytes object when they are
\* the same part, or when both bodies are the same single byte and the
\* interpreter hands out one shared object per 1-byte value (CPython does)
VARIABLE interned
OneByte(b) == Len(b) = 1 /\ b[1].t = "byte"
SameObject(parts, i, j) ==
    i = j \/ (interned /\ OneByte(parts[i].body) /\ parts[i].body = parts[j].body)

\* 3) positional fallback
LastOf(others, default) ==
    IF others # {} THEN CHOOSE i \in others : \A j \in others : j <= i ELSE default
AclAfter(parts, e1, a) ==
    [e |-> e1,
     a |-> IF a # 0 THEN a
           ELSE LastOf({i \in 1..Len(parts) : ~SameObject(parts, i, e1)}, Len(parts))]
ByPosition(parts, e, a) == AclAfter(parts, IF e = 0 THEN 1 ELSE e, a)

\* the parts chosen as envelope and as ACL, before the sanity swap
SniffAfter_Skip(parts, h) == h
SniffAfter(parts, h) == BySniffing(parts, 1, h.e, h.a)
PositionAfter(parts, g) == ByPosition(parts, g.e, g.a)
ChosenParts(parts) ==
    PositionAfter(parts, SniffAfter(parts, ByContentType(parts, 1, 0, 0)))

\* the framing check "if len(parts) < 2: raise ValueError"
TooFewParts_None(parts) == Len(parts) < 1
TooFewParts(parts) == Len(parts) < 2

\* _extract_envelope_acl(raw, boundary_bytes): the two texts, or ValueError
Extracted(env_txt, acl_txt, e, a) ==
    [error |-> "", env_txt |-> env_txt, acl_txt |-> acl_txt, e |-> e, a |-> a]
SanitySwap(env_bytes, acl_bytes, e, a) ==
    IF /\ ~_guess_is_acl(acl_bytes)
       /\ _guess_is_envelope(acl_bytes)
       /\ _guess_is_acl(env_bytes)
    THEN Extracted(strip(acl_bytes), strip(env_bytes), a, e)
    ELSE Extracted(strip(env_bytes), strip(acl_bytes), e, a)
ExtractChosen(parts, ch) ==
    SanitySwap(parts[ch.e].body, parts[ch.a].body, ch.e, ch.a)
ExtractFrom(parts) ==
    IF TooFewParts(parts)
    THEN [error |-> "ValueError", env_txt |-> <<>>, acl_txt |-> <<>>, e |-> 0, a |-> 0]
    ELSE ExtractChosen(parts, ChosenParts(parts))
_extract_envelope_acl(raw, boundary) == ExtractFrom(_split_parts(raw, boundary))

\* Envelope.from_xml on a text: "" when it parses, else the exception raised
IsText(txt, x) == Len(txt) = 1 /\ txt[1].t = "text" /\ txt[1].v = x
IsXmlDoc(txt) == Len(txt) = 1 /\ txt[1].t = "xml"
Envelope_from_xml(txt) ==
    IF IsXmlDoc(txt) \/ IsText(txt, "<?xml envelope") THEN ""
    ELSE IF IsText(txt, "<?xml no-date") THEN "ValueError"     \* strptime, int
    ELSE "ParseError"                                          \* ET.fromstring

\* _BOUNDARY_RE = boundary="?([^";]+)"? (IGNORECASE), searched in a header
\* value given as tokens; the result is the captured group, <<>> for no match
BoundaryKeys == {"boundary=", "BOUNDARY="}
Quote == "\""
Semi == ";"
BoundaryAt(ctype, i) ==
    LET j == IF i + 1 <= Len(ctype) /\ ctype[i + 1] = Quote THEN i + 2 ELSE i + 1
    IN IF j <= Len(ctype) /\ ctype[j] \notin {Quote, Semi} THEN <<ctype[j]>> ELSE <<>>
BoundaryMatch(ctype) ==
    LET Key(q, i) == q[i] \in BoundaryKeys /\ BoundaryAt(q, i) # <<>>
    IN FirstIndex(ctype, Key)
GroupAt_OrDefault(ctype, i) == IF i = 0 THEN <<"B">> ELSE BoundaryAt(ctype, i)
GroupAt(ctype, i) == IF i = 0 THEN <<>> ELSE BoundaryAt(ctype, i)
BoundarySearch(ctype) == GroupAt(ctype, BoundaryMatch(ctype))

(***************************************************************************)
(* The ACL codec: strings as sequences of characters and words             *)
(***************************************************************************)
\* length of the content strings explored
MaxContentLen == 3

\* the characters of a content string: a letter, the two parentheses, the
\* double quote, the backslash, a blank and a non-ASCII letter (U+00E9)
Backslash == "\\"
LParen == "("
RParen == ")"
Space == " "
EAcute == "U+00E9"
ContentChars == {"q", LParen, RParen, Quote, Backslash, Space, EAcute}

RECURSIVE StringsUpTo(_)
StringsUpTo(n) ==
    IF n = 0 THEN {<<>>}
    ELSE LET shorter == StringsUpTo(n - 1)
         IN shorter \cup {Append(c, x) : c \in shorter, x \in ContentChars}
Contents == StringsUpTo(MaxContentLen)

\* values of the language slot
Languages == {None, Some("fipa-sl0"), Some("FIPA-SL0"), Some("english")}

\* AclMessage with the slots dumps renders and the visitor fills from text
Message(perf, content, language, cid, rw) ==
    [performative |-> perf, content |-> content, language |-> language,
     conversation_id |-> cid, reply_with |-> rw, user_params |-> <<>>]

\* str.lower() on the slot values and performatives that occur
lower(x) ==
    CASE x = "FIPA-SL0" -> "fipa-sl0"
      [] x = "INFORM" -> "inform"
      [] x = "REQUEST" -> "request"
      [] x = "AGREE" -> "agree"
      [] x = "REFUSE" -> "refuse"
      [] x = "FAILURE" -> "failure"
      [] x = "INFORM-REF" -> "inform-ref"
      [] x = ":CONTENT" -> ":content"
      [] x = ":Weird" -> ":weird"
      [] x = ":WEIRD" -> ":weird"
      [] x = ":X-Tag" -> ":x-tag"
      [] OTHER -> x

\* str.lstrip() on a character string
RECURSIVE lstrip_str(_)
lstrip_str(c) == IF c # <<>> /\ Head(c) = Space THEN lstrip_str(Tail(c)) ELSE c

\* _content_to_str for a str: "if already quoted, strip quotes"
_content_to_str(c) ==
    IF Len(c) >= 2 /\ c[1] = Quote /\ c[Len(c)] = Quote
    THEN SubSeq(c, 2, Len(c) - 1)
    ELSE c

\* "msg.language and msg.language.lower().startswith('fipa-sl')"
FipaSlNames == {"fipa-sl", "fipa-sl0", "fipa-sl1", "fipa-sl2"}
IsFipaSl(language) ==
    language # None /\ language # Some("") /\ lower(language[1]) \in FipaSlNames

\* "stripped.startswith('((')"
StartsDouble(stripped) ==
    Len(stripped) >= 2 /\ stripped[1] = LParen /\ stripped[2] = LParen

\* the JADE patch of dumps: "if not stripped.startswith('(('): c = f'({c})'"
JadeWrap_Always(c, language) ==
    IF IsFipaSl(language) THEN <<LParen>> \o c \o <<RParen>> ELSE c
JadeWrap(c, language) ==
    IF IsFipaSl(language) /\ ~StartsDouble(lstrip_str(c))
    THEN <<LParen>> \o c \o <<RParen>>
    ELSE c

\* c.replace('"', '\\"')
RECURSIVE EscapeQuotes_AndBackslashes(_)
EscapeQuotes_AndBackslashes(c) ==
    IF c = <<>> THEN <<>>
    ELSE (IF Head(c) \in {Quote, Backslash} THEN <<Backslash, Head(c)>> ELSE <<Head(c)>>)
         \o EscapeQuotes_AndBackslashes(Tail(c))
RECURSIVE EscapeQuotes(_)
EscapeQuotes(c) ==
    IF c = <<>> THEN <<>>
    ELSE (IF Head(c) = Quote THEN <<Backslash, Quote>> ELSE <<Head(c)>>)
         \o EscapeQuotes(Tail(c))

\* "if msg.x: parts.append(f' :x {msg.x}')": the slot name and its value
Slot(name, v) == IF v = None \/ v = Some("") THEN <<>> ELSE <<name, v[1]>>

\* "if msg.content is not None: ... parts.append(f' :content \"{c}\"')"
ContentSlot(msg) ==
    IF msg.content = None THEN <<>>
    ELSE <<":content", Quote>>
         \o EscapeQuotes(JadeWrap(_content_to_str(msg.content[1]), msg.language))
         \o <<Quote>>

\* _quote_val(v) of a string, and "for k, v in msg.user_params.items()"
_quote_val(v) == <<Quote>> \o EscapeQuotes_AndBackslashes(v) \o <<Quote>>
RECURSIVE UserParams(_, _)
UserParams(ups, n) ==
    IF n > Len(ups) THEN <<>>
    ELSE <<ups[n].k>> \o _quote_val(ups[n].v) \o UserParams(ups, n + 1)

\* dumps(msg): the ACL string
dumps(msg) ==
    <<LParen, performative_upper(msg)>>
    \o ContentSlot(msg)
    \o Slot(":language", msg.language)
    \o Slot(":conversation-id", msg.conversation_id)
    \o Slot(":reply-with", msg.reply_with)
    \o UserParams(msg.user_params, 1)
    \o <<RParen>>

\* the ACL grammar: message := '(' PERFORMATIVE param* ')',
\* param := ':' NAME value, string := a double-quoted literal with \" and \\
SlotNames ==
    {":content", ":CONTENT", ":language", ":conversation-id", ":reply-with",
     ":Weird", ":WEIRD", ":weird", ":X-Tag", ":x-tag"}
Specials == {LParen, RParen, Quote, Backslash, Space, EAcute}
IsSymbol(x) == x \notin Specials /\ x \notin SlotNames

\* the index of the quote closing a STRING whose characters start at j, 0 when
\* the literal is not closed; a backslash takes the next character with it
RECURSIVE StringEnd(_, _)
StringEnd(text, j) ==
    IF j > Len(text) THEN 0
    ELSE IF text[j] = Backslash THEN StringEnd(text, j + 2)
    ELSE IF text[j] = Quote THEN j
    ELSE StringEnd(text, j + 1)

\* bytes(raw[1:-1], "utf-8").decode("unicode_escape"): \" and \\ are
\* unescaped, an unknown escape keeps its backslash, and the two UTF-8 bytes
\* of a non-ASCII letter are read as two Latin-1 letters
RECURSIVE unicode_escape_Utf8(_)
unicode_escape_Utf8(c) ==
    IF c = <<>> THEN <<>>
    ELSE IF Head(c) = Backslash /\ Len(c) >= 2 /\ c[2] \in {Quote, Backslash}
         THEN <<c[2]>> \o unicode_escape_Utf8(SubSeq(c, 3, Len(c)))
    ELSE <<Head(c)>> \o unicode_escape_Utf8(Tail(c))
RECURSIVE unicode_escape(_)
unicode_escape(c) ==
    IF c = <<>> THEN <<>>
    ELSE IF Head(c) = Backslash /\ Len(c) >= 2 /\ c[2] \in {Quote, Backslash}
         THEN <<c[2]>> \o unicode_escape(SubSeq(c, 3, Len(c)))
    ELSE IF Head(c) = EAcute
         THEN <<"U+00C3", "U+00A9">> \o unicode_escape(Tail(c))
    ELSE <<Head(c)>> \o unicode_escape(Tail(c))

\* visitString, visitAtom: the value of a slot
QuotedStr(chars) == [kind |-> "string", val |-> chars]
Atom(word) == [kind |-> "atom", val |-> <<word>>]
visitString(text, i, j) == QuotedStr(unicode_escape(SubSeq(text, i + 1, j - 1)))

\* "params[k] = v": a dict that keeps the order of first insertion
SetParam(params, k, v) ==
    IF \E n \in DOMAIN params : params[n].k = k
    THEN [n \in DOMAIN params |->
             IF params[n].k = k THEN [k |-> k, v |-> v] ELSE params[n]]
    ELSE Append(params, [k |-> k, v |-> v])

SyntaxError == [error |-> "ValueError", why |-> "syntax", params |-> <<>>]

\* the parameters of a message whose text is read from index i on
RECURSIVE ParseParams(_, _, _)
ParseString(text, i, j, params) ==
    IF j = 0 THEN SyntaxError
    ELSE ParseParams(text, j + 1, SetParam(params, text[i], visitString(text, i + 1, j)))
ParseValue(text, i, params) ==
    IF i + 1 > Len(text) THEN SyntaxError
    ELSE IF text[i + 1] = Quote
         THEN ParseString(text, i, StringEnd(text, i + 2), params)
    ELSE IF IsSymbol(text[i + 1])
         THEN ParseParams(text, i + 2, SetParam(params, text[i], Atom(text[i + 1])))
    ELSE SyntaxError
ParseParams(text, i, params) ==
    IF i > Len(text) THEN SyntaxError
    ELSE IF text[i] = Space THEN ParseParams(text, i + 1, params)
    ELSE IF text[i] = RParen
         THEN IF i = Len(text)
              THEN [error |-> "", why |-> "", params |-> params]
              ELSE SyntaxError
    ELSE IF text[i] \in SlotNames THEN ParseValue(text, i, params)
    ELSE SyntaxError

\* parser.message() and "if parser.getNumberOfSyntaxErrors() > 0: raise"
ParseTree(text) ==
    IF Len(text) >= 3 /\ text[1] = LParen /\ IsSymbol(text[2])
    THEN ParseParams(text, 3, <<>>)
    ELSE SyntaxError

\* MANDATORY_ROOT = {"inform": {"content"}, "request": {"content"}}
MANDATORY_ROOT_None(perf_l) == {}
MANDATORY_ROOT(perf_l) ==
    IF perf_l \in {"inform", "request"} THEN {":content"} ELSE {}

\* params.keys(): the slot names as written in the text
Keys(params) == {params[n].k : n \in DOMAIN params}

\* the result of a failed parse: an exception, no message
NoMessage == Message("", None, None, None, None)
Raised(why, missing) ==
    [error |-> "ValueError", why |-> why, missing |-> missing, msg |-> NoMessage]
Returned(msg) == [error |-> "", why |-> "", missing |-> {}, msg |-> msg]

\* str(val) of an atom or of a QuotedStr
StrOf(v) == IF v.kind = "atom" THEN v.val ELSE Some(v.val)

\* ALLOWED_ROOT, as far as the slots of the model go
ALLOWED_ROOT == {":content", ":language", ":conversation-id", ":reply-with"}

\* "msg.user_params[lname] = val"
AssignSlot_Drop(msg, k, v) ==
    CASE lower(k) = ":content" -> [msg EXCEPT !.content = Some(v.val)]
      [] lower(k) = ":language" -> [msg EXCEPT !.language = StrOf(v)]
      [] lower(k) = ":conversation-id" -> [msg EXCEPT !.conversation_id = StrOf(v)]
      [] lower(k) = ":reply-with" -> [msg EXCEPT !.reply_with = StrOf(v)]
      [] OTHER -> msg

\* one round of "for name, val in params.items()"
AssignSlot(msg, k, v) ==
    CASE lower(k) = ":content" -> [msg EXCEPT !.content = Some(v.val)]   \* _coerce_content
      [] lower(k) = ":language" -> [msg EXCEPT !.language = StrOf(v)]
      [] lower(k) = ":conversation-id" -> [msg EXCEPT !.conversation_id = StrOf(v)]
      [] lower(k) = ":reply-with" -> [msg EXCEPT !.reply_with = StrOf(v)]
      [] OTHER -> [msg EXCEPT !.user_params = SetParam(@, lower(k), v.val)]
RECURSIVE AssignSlots(_, _, _)
AssignSlots(msg, params, n) ==
    IF n > Len(params) THEN msg
    ELSE AssignSlots(AssignSlot(msg, params[n].k, params[n].v), params, n + 1)

\* MessageBuilder.visitACLmessage at depth 1
CheckMandatory(perf_l, params, missing) ==
    IF missing # {} THEN Raised("missing", missing)
    ELSE Returned(AssignSlots(Message(perf_l, None, None, None, None), params, 1))
visitACLmessage(perf, params) ==
    CheckMandatory(lower(perf), params, MANDATORY_ROOT(lower(perf)) \ Keys(params))

\* parse(raw): the message, or the ValueError raised
VisitTree(text, tree) ==
    IF tree.error # "" THEN Raised("syntax", {})
    ELSE visitACLmessage(text[2], tree.params)
parse(text) == VisitTree(text, ParseTree(text))

\* parse_acl on the text of a body part: "" when it parses, else the exception
IsAclString(txt) == Len(txt) = 1 /\ txt[1].t = "acl"
parse_acl(txt) ==
    IF IsAclString(txt) THEN parse(txt[1].v).error
    ELSE IF IsText(txt, "(inform :content hi)") THEN ""
    ELSE "ValueError"

(***************************************************************************)
(* SL0 (sl0.py): a Python str is the sequence of its blank-separated words  *)
(***************************************************************************)
\* the AST dataclasses, and the values next to them: str and list; an
\* Optional[str] field holds None or Some(PyStr(words))
AgentIdentifier(name, addresses) ==
    [t |-> "aid", name |-> name, addresses |-> addresses]
ServiceDescription(name, type, languages, ontologies, protocols, properties) ==
    [t |-> "sd", name |-> name, type |-> type, languages |-> languages,
     ontologies |-> ontologies, protocols |-> protocols, properties |-> properties]
DfAgentDescription(name, services, languages, ontologies, protocols, ownership) ==
    [t |-> "dfad", name |-> name, services |-> services, languages |-> languages,
     ontologies |-> ontologies, protocols |-> protocols, ownership |-> ownership]
Register(dfad) == [t |-> "register", dfad |-> dfad]
Deregister(dfad) == [t |-> "deregister", dfad |-> dfad]
Modify(dfad) == [t |-> "modify", dfad |-> dfad]
Search(template, max_results) ==
    [t |-> "search", template |-> template, max_results |-> max_results]
Action(actor, act) == [t |-> "action", actor |-> actor, act |-> act]
Done(what) == [t |-> "done", what |-> what]
Failure(reason) == [t |-> "failure", reason |-> reason]
Result(what, value) == [t |-> "result", what |-> what, value |-> value]
PyStr(words) == [t |-> "str", v |-> words]
PyList(items) == [t |-> "pylist", items |-> items]
\* an exception raised while the AST is built
SlError == [t |-> "error"]

\* " ".join(strings)
RECURSIVE JoinWords(_)
JoinWords(strs) == IF strs = <<>> THEN <<>> ELSE Head(strs) \o JoinWords(Tail(strs))

\* str(int) and int(str) for max_results
MaxResultsWord(n) == IF n = 3 THEN "3" ELSE "0"
IntOf(word) == IF word = "3" THEN Some(3) ELSE IF word = "0" THEN Some(0) ELSE None

\* _render_aid
_render_aid(aid) ==
    <<LParen, "agent-identifier", ":name">> \o aid.name
    \o <<":addresses", LParen, "sequence">> \o JoinWords(aid.addresses)
    \o <<RParen, RParen>>

\* "if x: parts.append(' :tag (set ' + ' '.join(x) + ')')"
SetSlot(tag, strs) ==
    IF strs = <<>> THEN <<>>
    ELSE <<tag, LParen, "set">> \o JoinWords(strs) \o <<RParen>>
\* "if sd.name is not None: parts.append(f' :name {sd.name}')"
OptSlot(tag, v) == IF v = None THEN <<>> ELSE <<tag>> \o v[1].v

\* "(property :name {n} :value {v})" for each property
RECURSIVE RenderProps(_)
RenderProps(props) ==
    IF props = <<>> THEN <<>>
    ELSE <<LParen, "property", ":name">> \o Head(props).n
         \o <<":value">> \o Head(props).v \o <<RParen>>
         \o RenderProps(Tail(props))
PropsSlot(props) ==
    IF props = <<>> THEN <<>>
    ELSE <<":properties", LParen, "set">> \o RenderProps(props) \o <<RParen>>

\* _render_sd
_render_sd(sd) ==
    <<LParen, "service-description">>
    \o OptSlot(":name", sd.name)
    \o OptSlot(":type", sd.type)
    \o SetSlot(":languages", sd.languages)
    \o SetSlot(":ontologies", sd.ontologies)
    \o SetSlot(":protocols", sd.protocols)
    \o PropsSlot(sd.properties)
    \o <<RParen>>

RECURSIVE RenderSds(_)
RenderSds(sds) ==
    IF sds = <<>> THEN <<>> ELSE _render_sd(Head(sds)) \o RenderSds(Tail(sds))
ServicesSlot(sds) ==
    IF sds = <<>> THEN <<>>
    ELSE <<":services", LParen, "set">> \o RenderSds(sds) \o <<RParen>>

\* _render_dfad
_render_dfad(dfad) ==
    <<LParen, "df-agent-description">>
    \o (IF dfad.name = None THEN <<>> ELSE <<":name">> \o _render_aid(dfad.name[1]))
    \o SetSlot(":languages", dfad.languages)
    \o SetSlot(":ontologies", dfad.ontologies)
    \o SetSlot(":protocols", dfad.protocols)
    \o SetSlot(":ownership", dfad.ownership)
    \o ServicesSlot(dfad.services)
    \o <<RParen>>

\* _render; str(obj) of a list is its Python repr, one word here
RECURSIVE _render(_)
_render(obj) ==
    CASE obj.t = "action" ->
            <<LParen, "action">> \o _render_aid(obj.actor) \o _render(obj.act) \o <<RParen>>
      [] obj.t = "register" -> <<LParen, "register">> \o _render_dfad(obj.dfad) \o <<RParen>>
      [] obj.t = "deregister" ->
            <<LParen, "deregister">> \o _render_dfad(obj.dfad) \o <<RParen>>
      [] obj.t = "modify" -> <<LParen, "modify">> \o _render_dfad(obj.dfad) \o <<RParen>>
      [] obj.t = "search" ->
            <<LParen, "search">> \o _render_dfad(obj.template)
            \o (IF obj.max_results = None THEN <<>>
                ELSE <<MaxResultsWord(obj.max_results[1])>>)
            \o <<RParen>>
      [] obj.t = "done" -> <<LParen, "done">> \o _render(obj.what) \o <<RParen>>
      [] obj.t = "failure" -> <<LParen, "failure">> \o _render(obj.reason) \o <<RParen>>
      [] obj.t = "result" ->
            <<LParen, "result">> \o _render(obj.what) \o _render(obj.value) \o <<RParen>>
      [] obj.t = "dfad" -> _render_dfad(obj)
      [] obj.t = "sd" -> _render_sd(obj)
      [] obj.t = "aid" -> _render_aid(obj)
      [] obj.t = "str" -> obj.v
      [] OTHER -> <<"[...]">>

\* sl0.dumps
sl0_dumps(obj) == _render(obj)

\* _parse_expr: nested lists of atoms; _tokenize is the split into words
SlAtom(w) == [t |-> "atom", v |-> w]
SlList(items) == [t |-> "list", v |-> items]
SlFail == [ok |-> FALSE, node |-> SlAtom(""), pos |-> 0]
RECURSIVE _parse_expr(_, _)
RECURSIVE ParseItems(_, _, _)
ItemParsed(toks, lst, r) ==
    IF r.ok THEN ParseItems(toks, r.pos, Append(lst, r.node)) ELSE SlFail
ParseItems(toks, pos, lst) ==
    IF pos > Len(toks) THEN SlFail                       \* "Parentese nao fechado"
    ELSE IF toks[pos] = RParen
         THEN [ok |-> TRUE, node |-> SlList(lst), pos |-> pos + 1]
    ELSE ItemParsed(toks, lst, _parse_expr(toks, pos))
_parse_expr(toks, pos) ==
    IF pos > Len(toks) THEN SlFail
    ELSE IF toks[pos] = LParen THEN ParseItems(toks, pos + 1, <<>>)
    ELSE IF toks[pos] = RParen THEN SlFail
    ELSE [ok |-> TRUE, node |-> SlAtom(toks[pos]), pos |-> pos + 1]

\* str(x) of an atom or of a nested list
SlStr(x) == IF x.t = "atom" THEN <<x.v>> ELSE <<"[...]">>
RECURSIVE SlStrs(_)
SlStrs(items) ==
    IF items = <<>> THEN <<>> ELSE <<SlStr(Head(items))>> \o SlStrs(Tail(items))

\* str.lower() of the keywords and tags that occur
sl_lower(w) ==
    CASE w = "Set" -> "set"
      [] w = "SEQUENCE" -> "sequence"
      [] w = ":Languages" -> ":languages"
      [] OTHER -> w
\* "isinstance(e, list) and e and isinstance(e[0], str) and e[0].lower() == kw"
HasHead(e, kw) ==
    /\ e.t = "list" /\ e.v # <<>>
    /\ e.v[1].t = "atom" /\ sl_lower(e.v[1].v) = kw

\* _extract_sequence, _extract_set
ExtractWrapped_AnyKeyword(e, kw) ==
    IF HasHead(e, "sequence") \/ HasHead(e, "set") THEN SlStrs(Tail(e.v))
    ELSE IF e.t = "list" THEN SlStrs(e.v)
    ELSE <<SlStr(e)>>
ExtractWrapped(e, kw) ==
    IF HasHead(e, kw) THEN SlStrs(Tail(e.v))
    ELSE IF e.t = "list" THEN SlStrs(e.v)
    ELSE <<SlStr(e)>>
_extract_sequence(e) == ExtractWrapped(e, "sequence")
_extract_set(e) == ExtractWrapped(e, "set")

\* is e[i] the tag, with a value after it
TagAt(e, i, tag) ==
    /\ e[i].t = "atom" /\ sl_lower(e[i].v) = tag
    /\ i + 1 <= Len(e)

\* _build_aid
RECURSIVE AidLoop(_, _, _, _)
AidLoop(e, i, name, addrs) ==
    IF i > Len(e)
    THEN IF name = None THEN SlError ELSE AgentIdentifier(name[1], addrs)
    ELSE IF TagAt(e, i, ":name") THEN AidLoop(e, i + 2, Some(SlStr(e[i + 1])), addrs)
    ELSE IF TagAt(e, i, ":addresses")
         THEN AidLoop(e, i + 2, name, _extract_sequence(e[i + 1]))
    ELSE AidLoop(e, i + 1, name, addrs)
_build_aid(e) ==
    IF e.t # "list" THEN AgentIdentifier(SlStr(e), <<>>)
    ELSE AidLoop(e.v, 2, None, <<>>)

\* _extract_properties
RECURSIVE PropLoop(_, _, _, _)
PropLoop(it, j, n, v) ==
    IF j > Len(it) THEN [n |-> n, v |-> v]
    ELSE IF TagAt(it, j, ":name") THEN PropLoop(it, j + 2, SlStr(it[j + 1]), v)
    ELSE IF TagAt(it, j, ":value") THEN PropLoop(it, j + 2, n, SlStr(it[j + 1]))
    ELSE PropLoop(it, j + 1, n, v)
RECURSIVE PropsOf(_)
PropsOf(items) ==
    IF items = <<>> THEN <<>>
    ELSE (IF HasHead(Head(items), "property")
          THEN <<PropLoop(Head(items).v, 2, <<>>, <<>>)>> ELSE <<>>)
         \o PropsOf(Tail(items))
\* "items = e[1:] if ... == 'set' else e; if not isinstance(items, list): [items]"
ItemsOf(e) ==
    IF HasHead(e, "set") THEN Tail(e.v)
    ELSE IF e.t = "list" THEN e.v
    ELSE <<e>>
_extract_properties(e) == PropsOf(ItemsOf(e))

\* _build_sd
NewSd == ServiceDescription(None, None, <<>>, <<>>, <<>>, <<>>)
RECURSIVE SdLoop(_, _, _)
SdLoop(e, i, sd) ==
    IF i > Len(e) THEN sd
    ELSE IF TagAt(e, i, ":name")
         THEN SdLoop(e, i + 2, [sd EXCEPT !.name = Some(PyStr(SlStr(e[i + 1])))])
    ELSE IF TagAt(e, i, ":type")
         THEN SdLoop(e, i + 2, [sd EXCEPT !.type = Some(PyStr(SlStr(e[i + 1])))])
    ELSE IF TagAt(e, i, ":languages")
         THEN SdLoop(e, i + 2, [sd EXCEPT !.languages = _extract_set(e[i + 1])])
    ELSE IF TagAt(e, i, ":ontologies")
         THEN SdLoop(e, i + 2, [sd EXCEPT !.ontologies = _extract_set(e[i + 1])])
    ELSE IF TagAt(e, i, ":protocols")
         THEN SdLoop(e, i + 2, [sd EXCEPT !.protocols = _extract_set(e[i + 1])])
    ELSE IF TagAt(e, i, ":properties")
         THEN SdLoop(e, i + 2, [sd EXCEPT !.properties = _extract_properties(e[i + 1])])
    ELSE SdLoop(e, i + 1, sd)
\* of a str the loop sees single characters, never a tag
_build_sd(e) == IF e.t = "list" THEN SdLoop(e.v, 2, NewSd) ELSE NewSd

\* _extract_services
RECURSIVE SdsOf(_)
SdsOf(items) ==
    IF items = <<>> THEN <<>> ELSE <<_build_sd(Head(items))>> \o SdsOf(Tail(items))
_extract_services(e) == SdsOf(ItemsOf(e))

\* _build_dfad
NewDfad == DfAgentDescription(None, <<>>, <<>>, <<>>, <<>>, <<>>)
RECURSIVE DfadLoop(_, _, _)
DfadLoop(e, i, dfad) ==
    IF i > Len(e) THEN dfad
    ELSE IF TagAt(e, i, ":name")
         THEN DfadLoop(e, i + 2, [dfad EXCEPT !.name = Some(_build_aid(e[i + 1]))])
    ELSE IF TagAt(e, i, ":services")
         THEN DfadLoop(e, i + 2, [dfad EXCEPT !.services = _extract_services(e[i + 1])])
    ELSE IF TagAt(e, i, ":languages")
         THEN DfadLoop(e, i + 2, [dfad EXCEPT !.languages = _extract_set(e[i + 1])])
    ELSE IF TagAt(e, i, ":ontologies")
         THEN DfadLoop(e, i + 2, [dfad EXCEPT !.ontologies = _extract_set(e[i + 1])])
    ELSE IF TagAt(e, i, ":protocols")
         THEN DfadLoop(e, i + 2, [dfad EXCEPT !.protocols = _extract_set(e[i + 1])])
    ELSE IF TagAt(e, i, ":ownership")
         THEN DfadLoop(e, i + 2, [dfad EXCEPT !.ownership = _extract_set(e[i + 1])])
    ELSE DfadLoop(e, i + 1, dfad)
_build_dfad(e) == IF e.t # "list" THEN SlError ELSE DfadLoop(e.v, 2, NewDfad)

\* _build_ast
RECURSIVE _build_ast(_)
RECURSIVE BuildAll(_)
BuildAll(items) ==
    IF items = <<>> THEN <<>> ELSE <<_build_ast(Head(items))>> \o BuildAll(Tail(items))
SearchMax(e) ==
    IF Len(e) >= 3 /\ e[3].t = "atom" THEN IntOf(e[3].v) ELSE None
BuildList(e, head) ==
    CASE head = "action" /\ Len(e) >= 3 -> Action(_build_aid(e[2]), _build_ast(e[3]))
      [] head = "register" /\ Len(e) >= 2 -> Register(_build_dfad(e[2]))
      [] head = "deregister" /\ Len(e) >= 2 -> Deregister(_build_dfad(e[2]))
      [] head = "modify" /\ Len(e) >= 2 -> Modify(_build_dfad(e[2]))
      [] head = "search" /\ Len(e) >= 2 -> Search(_build_dfad(e[2]), SearchMax(e))
      [] head = "done" /\ Len(e) >= 2 -> Done(_build_ast(e[2]))
      [] head = "failure" /\ Len(e) >= 2 -> Failure(_build_ast(e[2]))
      [] head = "result" /\ Len(e) >= 3 -> Result(_build_ast(e[2]), _build_ast(e[3]))
      [] head = "df-agent-description" -> DfadLoop(e, 2, NewDfad)
      [] head = "service-description" -> SdLoop(e, 2, NewSd)
      [] head = "agent-identifier" -> AidLoop(e, 2, None, <<>>)
      [] OTHER -> PyList(BuildAll(e))
_build_ast(e) ==
    IF e.t = "atom" THEN PyStr(<<e.v>>)
    ELSE IF e.v = <<>> THEN PyList(<<>>)
    ELSE BuildList(e.v, IF e.v[1].t = "atom" THEN sl_lower(e.v[1].v) ELSE "[...]")

\* does building this value raise (an agent-identifier without :name, a
\* df-agent-description that is no list)
RECURSIVE Raises(_)
RECURSIVE AnyRaises(_)
AnyRaises(items) ==
    items # <<>> /\ (Raises(Head(items)) \/ AnyRaises(Tail(items)))
Raises(v) ==
    CASE v.t = "error" -> TRUE
      [] v.t = "action" -> Raises(v.actor) \/ Raises(v.act)
      [] v.t \in {"register", "deregister", "modify"} -> Raises(v.dfad)
      [] v.t = "search" -> Raises(v.template)
      [] v.t = "done" -> Raises(v.what)
      [] v.t = "failure" -> Raises(v.reason)
      [] v.t = "result" -> Raises(v.what) \/ Raises(v.value)
      [] v.t = "dfad" -> v.name # None /\ Raises(v.name[1])
      [] v.t = "pylist" -> AnyRaises(v.items)
      [] OTHER -> FALSE

\* sl0.loads: the AST, or the ValueError
LoadsBuilt(v) == IF Raises(v) THEN SlError ELSE v
LoadsParsed(src, r) ==
    IF ~r.ok \/ r.pos # Len(src) + 1 THEN SlError
    ELSE LoadsBuilt(_build_ast(r.node))
sl0_loads(src) == LoadsParsed(src, _parse_expr(src, 1))

(***************************************************************************)
(* Envelope XML (message/envelope.py, message/aid.py)                       *)
(***************************************************************************)
\* decimal digits as characters
DigitChars == <<"0", "1", "2", "3", "4", "5", "6", "7", "8", "9">>
IsDigit(c) == \E n \in 1..10 : DigitChars[n] = c
DigitOf(c) == (CHOOSE n \in 1..10 : DigitChars[n] = c) - 1
\* str(n) of a natural number, and "%02d"-style zero padding to a width
RECURSIVE Decimal(_)
Decimal(n) ==
    IF n < 10 THEN <<DigitChars[n + 1]>>
    ELSE Decimal(n \div 10) \o <<DigitChars[(n % 10) + 1]>>
RECURSIVE ZeroPad(_, _)
ZeroPad(digs, width) ==
    IF Len(digs) >= width THEN digs ELSE ZeroPad(<<"0">> \o digs, width)
\* int(text) of a run of digits
RECURSIVE NumOf(_)
NumOf(digs) ==
    IF digs = <<>> THEN 0
    ELSE NumOf(SubSeq(digs, 1, Len(digs) - 1)) * 10 + DigitOf(digs[Len(digs)])
AllDigits(digs) == \A i \in 1..Len(digs) : IsDigit(digs[i])

\* str(payload_length) and int(text)
str_int(n) == IF n < 0 THEN <<"-">> \o Decimal(0 - n) ELSE Decimal(n)
int_str(txt) ==
    IF txt # <<>> /\ txt[1] = "-" THEN 0 - NumOf(Tail(txt)) ELSE NumOf(txt)

\* an aware datetime; utcoffset in hours
DateTime(year, month, day, hour, minute, second, microsecond, utcoffset) ==
    [year |-> year, month |-> month, day |-> day, hour |-> hour,
     minute |-> minute, second |-> second, microsecond |-> microsecond,
     utcoffset |-> utcoffset]
\* date.astimezone(timezone.utc), for a time of day the offset keeps in the day
astimezone_utc(d) ==
    [d EXCEPT !.hour = d.hour - d.utcoffset, !.utcoffset = 0]

\* date.strftime(RFC_FMT): "%Y%m%dZ%H%M%S%f".  The C library decides whether
\* a year below 1000 is zero padded.
strftime(d, pad_year) ==
    (IF pad_year THEN ZeroPad(Decimal(d.year), 4) ELSE Decimal(d.year))
    \o ZeroPad(Decimal(d.month), 2) \o ZeroPad(Decimal(d.day), 2) \o <<"Z">>
    \o ZeroPad(Decimal(d.hour), 2) \o ZeroPad(Decimal(d.minute), 2)
    \o ZeroPad(Decimal(d.second), 2) \o ZeroPad(Decimal(d.microsecond), 6)
\* "[:-3]  # trim us -> ms"
TrimMillis(txt) == SubSeq(txt, 1, Len(txt) - 3)

\* datetime.strptime(text, RFC_FMT): the regular expression of _strptime,
\* %Y four digits, %m %d %H %M %S one or two digits in their range, two
\* preferred, %f one to six digits, greedy; then "unconverted data remains"
FieldAt(txt, pos, len) == SubSeq(txt, pos, pos + len - 1)
FieldOk(txt, pos, len, lo, hi) ==
    /\ pos + len - 1 <= Len(txt)
    /\ AllDigits(FieldAt(txt, pos, len))
    /\ NumOf(FieldAt(txt, pos, len)) >= lo
    /\ NumOf(FieldAt(txt, pos, len)) <= hi
    /\ (len = 1 => txt[pos] # "0" \/ lo = 0)
Splits == [m : 1..2, d : 1..2, H : 1..2, M : 1..2, S : 1..2, f : 1..6]
PosD(sp) == 5 + sp.m
PosH(sp) == PosD(sp) + sp.d + 1
PosM(sp) == PosH(sp) + sp.H
PosS(sp) == PosM(sp) + sp.M
PosF(sp) == PosS(sp) + sp.S
Matches(txt, sp) ==
    /\ FieldOk(txt, 1, 4, 0, 9999)
    /\ FieldOk(txt, 5, sp.m, 1, 12)
    /\ FieldOk(txt, PosD(sp), sp.d, 1, 31)
    /\ PosH(sp) - 1 <= Len(txt) /\ txt[PosH(sp) - 1] = "Z"
    /\ FieldOk(txt, PosH(sp), sp.H, 0, 23)
    /\ FieldOk(txt, PosM(sp), sp.M, 0, 59)
    /\ FieldOk(txt, PosS(sp), sp.S, 0, 61)
    /\ FieldOk(txt, PosF(sp), sp.f, 0, 999999)
\* the order in which the regular expression tries the alternatives
Rank(sp) ==
    ((((sp.m * 2 + sp.d) * 2 + sp.H) * 2 + sp.M) * 2 + sp.S) * 6 + sp.f
FirstMatch(ms) == CHOOSE sp \in ms : \A o \in ms : Rank(o) <= Rank(sp)
\* the fraction is left aligned: "123" is 123000 microseconds
RECURSIVE Scale(_, _)
Scale(n, k) == IF k = 0 THEN n ELSE Scale(n * 10, k - 1)
BadDate == [error |-> "ValueError"]
DateOf(txt, sp) ==
    IF PosF(sp) + sp.f - 1 # Len(txt) THEN BadDate
    ELSE DateTime(NumOf(FieldAt(txt, 1, 4)),
                  NumOf(FieldAt(txt, 5, sp.m)),
                  NumOf(FieldAt(txt, PosD(sp), sp.d)),
                  NumOf(FieldAt(txt, PosH(sp), sp.H)),
                  NumOf(FieldAt(txt, PosM(sp), sp.M)),
                  NumOf(FieldAt(txt, PosS(sp), sp.S)),
                  Scale(NumOf(FieldAt(txt, PosF(sp), sp.f)), 6 - sp.f),
                  0)
StrptimeAmong(txt, ms) == IF ms = {} THEN BadDate ELSE DateOf(txt, FirstMatch(ms))
\* "datetime.strptime(date_txt, RFC_FMT).replace(tzinfo=timezone.utc)"
strptime(txt) == StrptimeAmong(txt, {sp \in Splits : Matches(txt, sp)})

\* an element: tag, text (None or Some(str)), children
Elem(tag, text, kids) == [tag |-> tag, text |-> text, kids |-> kids]
\* ET.tostring then ET.fromstring: an element whose text is '' is written
\* as an empty element and read back without text
RECURSIVE tostring(_)
RECURSIVE tostring_all(_)
tostring_all(kids) ==
    IF kids = <<>> THEN <<>> ELSE <<tostring(Head(kids))>> \o tostring_all(Tail(kids))
tostring(el) ==
    Elem(el.tag, IF el.text = Some(<<>>) THEN None ELSE el.text, tostring_all(el.kids))

\* AgentIdentifier.to_xml_elem(tag)
RECURSIVE UrlElems(_)
UrlElems(addresses) ==
    IF addresses = <<>> THEN <<>>
    ELSE <<Elem("url", Some(Head(addresses)), <<>>)>> \o UrlElems(Tail(addresses))
to_xml_elem(aid, tag) ==
    Elem(tag, None,
         <<Elem("agent-identifier", None,
                <<Elem("name", Some(aid.name), <<>>),
                  Elem("addresses", None, UrlElems(aid.addresses))>>)>>)

\* elem.find(tag): the first child with that tag, or None
RECURSIVE find(_, _)
find(kids, tag) ==
    IF kids = <<>> THEN None
    ELSE IF Head(kids).tag = tag THEN Some(Head(kids))
    ELSE find(Tail(kids), tag)
\* elem.findtext(tag, default): "elem.text or ''" of the child found
TextOf(found, default) ==
    IF found = None THEN default
    ELSE IF found[1].text = None THEN <<>> ELSE found[1].text[1]
findtext(kids, tag, default) == TextOf(find(kids, tag), default)
\* "[u.text for u in elem.findall('.//url') if u.text]"
RECURSIVE UrlTexts(_)
RECURSIVE UrlTextsAll(_)
UrlTextsAll(kids) ==
    IF kids = <<>> THEN <<>> ELSE UrlTexts(Head(kids)) \o UrlTextsAll(Tail(kids))
UrlTexts(el) ==
    (IF el.tag = "url" /\ el.text # None /\ el.text # Some(<<>>)
     THEN <<el.text[1]>> ELSE <<>>)
    \o UrlTextsAll(el.kids)
\* AgentIdentifier.from_elem(elem)
NameOf(found) == IF found = None THEN <<>> ELSE findtext(found[1].kids, "name", <<>>)
from_elem(el) ==
    AgentIdentifier(NameOf(find(el.kids, "agent-identifier")), UrlTextsAll(el.kids))

\* Envelope
Envelope(to_, from_, date, payload_length, acl_rep) ==
    [to_ |-> to_, from_ |-> from_, date |-> date,
     payload_length |-> payload_length, acl_rep |-> acl_rep]
\* Envelope.to_xml
to_xml(e, pad_year) ==
    tostring(
        Elem("envelope", None,
             <<Elem("params", None,
                    <<to_xml_elem(e.to_, "to"),
                      to_xml_elem(e.from_, "from"),
                      Elem("acl-representation", Some(e.acl_rep), <<>>),
                      Elem("payload-length", Some(str_int(e.payload_length)), <<>>),
                      Elem("date",
                           Some(TrimMillis(strftime(astimezone_utc(e.date), pad_year))),
                           <<>>),
                      to_xml_elem(e.to_, "intended-receiver")>>)>>))
\* Envelope.from_xml
FromParams(params) ==
    Envelope(from_elem(find(params, "to")[1]),
             from_elem(find(params, "from")[1]),
             strptime(findtext(params, "date", <<>>)),
             int_str(findtext(params, "payload-length", <<"0">>)),
             findtext(params, "acl-representation", <<>>))
from_xml(doc) == FromParams(find(doc.kids, "params")[1].kids)

(***************************************************************************)
(* State                                                                   *)
(***************************************************************************)
VARIABLES
    convs,      \* ConversationManager._convs: conversation id -> _Conversation
    futures,    \* the future of every conversation created so far
    timers,     \* conversation ids with a pending loop.call_later handle
    callbacks,  \* future done-callbacks the loop has scheduled (call_soon), FIFO
    sending,    \* send_request calls suspended in "await self._send_fn"
    ncalls,     \* number of on_message calls made so far
    seen,       \* history: the kinds of ignored on_message calls made so far
    raised,     \* TRUE once on_message, _on_timeout or a callback has raised
    failed,     \* history: the send_request calls that raised, by conversation id
    on_message_cb,  \* HttpMtpServer._on_message is not None
    reqs,       \* the POST requests received so far, in arrival order
    resps,      \* the response the handler returned for each request
    tasks,      \* the background task of each request: state and number of runs
    inbox,      \* HttpMtpServer.inbox
    called,     \* the invocations of the registered callback, in order
    rules,      \* InboundDispatcher._rules: the templates with a handler, in order
    pump,       \* CommEndpoint._bg_task: "off" or "running"
    taken,      \* the pairs the pump took from the inbox, and what it did
    events,     \* CommEndpoint._events
    msg,        \* codec: the message handed to dumps
    wire,       \* codec: the text on the wire
    parsed,     \* codec: the result of parse
    again,      \* codec: dumps of the parsed message
    body,       \* extraction: the raw multipart body
    extracted,  \* extraction: the result of _extract_envelope_acl
    ast,        \* SL0: the value handed to sl0.dumps
    sl_src,     \* SL0: the text handed to sl0.loads
    sl_loaded,  \* SL0: the result of sl0.loads
    env_obj,    \* envelope: the Envelope handed to to_xml
    env_xml,    \* envelope: the XML document
    env_back,   \* envelope: the result of Envelope.from_xml
    legacy      \* peak_acl/conversation.py: a ConversationManager's _convs and handles

convVars == <<convs, futures, timers, callbacks, sending, ncalls, seen, raised,
              failed>>
mtpVars == <<on_message_cb, reqs, resps, tasks, inbox, called>>
pumpVars == <<rules, pump, taken, events>>
codecVars == <<msg, wire, parsed, again>>
extractVars == <<body, extracted>>
slVars == <<ast, sl_src, sl_loaded>>
envVars == <<env_obj, env_xml, env_back>>
libVars == <<ast, sl_src, sl_loaded, env_obj, env_xml, env_back, legacy>>
\* everything outside the runtime manager and the server, but the legacy manager
appVars == <<interned, rules, pump, taken, events, msg, wire, parsed, again,
             body, extracted, slVars, envVars>>
extVars == <<appVars, legacy>>
vars == <<convs, futures, timers, callbacks, sending, ncalls, seen, raised, failed,
          on_message_cb, reqs, resps, tasks, inbox, called,
          interned, rules, pump, taken, events, msg, wire, parsed, again,
          body, extracted, libVars>>

\* dict helpers
pop_Clear(d, k) == <<>>
pop(d, k) == [x \in DOMAIN d \ {k} |-> d[x]]
put(d, k, v) == [x \in DOMAIN d \cup {k} |-> IF x = k THEN v ELSE d[x]]

(***************************************************************************)
(* ConversationManager                                                     *)
(***************************************************************************)
\* _Conversation dataclass
_Conversation(conv_id, req) ==
    [conv_id |-> conv_id, state |-> "pending", request_msg |-> req,
     reply_agree_refuse |-> NoMsg]

\* "if not cid or cid not in self._convs: return"
Untracked_NoKeyCheck(cid, cs) == cid = None \/ cid = Some("")
Untracked(cid, cs) == cid = None \/ cid = Some("") \/ cid[1] \notin DOMAIN cs

\* performatives accepted as the first reply
FirstReplies_WithInform == {"AGREE", "REFUSE", "INFORM"}
FirstReplies == {"AGREE", "REFUSE"}

\* performatives accepted as the second reply
SecondReplies == {"INFORM", "FAILURE"}

\* states in which a second reply is accepted
SecondReplyStates == {"agreed", "refused"}

\* "agreed" if perf == "AGREE" else "refused"
StateAfterFirst(perf) == IF perf = "AGREE" THEN "agreed" ELSE "refused"

\* the guard "not conv.future.done()" in on_message and _on_timeout
Unguarded(f) == TRUE
NotDone(f) == ~done(f)

\* the value on_message passes to set_result
ResultFor_Captured(conv, acl) ==
    IF conv.reply_agree_refuse # NoMsg THEN conv.reply_agree_refuse ELSE acl
ResultFor(conv, acl) == acl

\* "self._convs.pop(cid, None)" after a REFUSE
DropRefused_Keep(cs, key) == cs
DropRefused(cs, key) == pop(cs, key)

\* on_message, 1st reply branch (conv.state == "pending")
OnFirstReply(S, key, acl, perf) ==
    IF perf \in FirstReplies
    THEN LET conv1 == [S.convs[key] EXCEPT !.reply_agree_refuse = acl,
                                         !.state = StateAfterFirst(perf)]
             cs1 == [S.convs EXCEPT ![key] = conv1]
         IN IF perf = "REFUSE" /\ NotDone(S.futures[key])
            THEN LET r == set_result(S.futures[key], ResultFor(S.convs[key], acl))
                 IN IF r.raised
                    THEN [S EXCEPT !.convs = cs1, !.raised = TRUE]
                    ELSE [S EXCEPT !.convs = DropRefused(cs1, key),
                                   !.futures[key] = r.fut,
                                   !.callbacks = Append(S.callbacks, key)]
            ELSE [S EXCEPT !.convs = cs1]
    ELSE S

\* on_message, 2nd reply branch (conv.state in {"agreed", "refused"})
OnSecondReply(S, key, acl, perf) ==
    IF perf \in SecondReplies
    THEN IF NotDone(S.futures[key])
         THEN LET r == set_result(S.futures[key], ResultFor(S.convs[key], acl))
              IN IF r.raised
                 THEN [S EXCEPT !.raised = TRUE]
                 ELSE [S EXCEPT !.convs = pop(S.convs, key),
                                !.futures[key] = r.fut,
                                !.callbacks = Append(S.callbacks, key)]
         ELSE [S EXCEPT !.convs = pop(S.convs, key)]
    ELSE S

\* ConversationManager.on_message as a function of the manager's state
on_message(S, acl) ==
    LET cid == acl.conversation_id IN
    IF Untracked(cid, S.convs) THEN S
    ELSE IF cid[1] \notin DOMAIN S.convs
         THEN [S EXCEPT !.raised = TRUE]      \* self._convs[cid]: KeyError
         ELSE LET key == cid[1]
                  perf == performative_upper(acl)
              IN IF S.convs[key].state = "pending"
                 THEN OnFirstReply(S, key, acl, perf)
                 ELSE IF S.convs[key].state \in SecondReplyStates
                      THEN OnSecondReply(S, key, acl, perf)
                      ELSE S

\* the conversations _on_timeout acts on
TimesOut_PendingOnly(conv) == conv.state = "pending"
TimesOut(conv) == TRUE

\* ConversationManager._on_timeout as a function of the manager's state
_on_timeout(S, conv_id) ==
    IF conv_id \notin DOMAIN S.convs THEN S
    ELSE IF NotDone(S.futures[conv_id]) /\ TimesOut(S.convs[conv_id])
         THEN LET r == set_exception(S.futures[conv_id], "TimeoutError")
              IN IF r.raised
                 THEN [S EXCEPT !.raised = TRUE]
                 ELSE [S EXCEPT !.futures[conv_id] = r.fut,
                                !.callbacks = Append(S.callbacks, conv_id)]
         ELSE S

\* _gen_conv_id: sender name + 8 random bytes, an id not handed out before
HasFreshId == Cardinality(DOMAIN futures) < MaxConvs
_gen_conv_id == AllConvIds[Cardinality(DOMAIN futures) + 1]

\* "timeout is not None and timeout > 0"
ArmsTimer(timeout) == timeout # None /\ timeout[1] > 0

\* the (state, performative) pairs on which on_message advances a conversation
Advances(state, perf) ==
    \/ state = "pending" /\ perf \in {"AGREE", "REFUSE"}
    \/ state \in {"agreed", "refused"} /\ perf \in {"INFORM", "FAILURE"}

\* history only: an ignored call is "untracked" (no usable conversation id while
\* some conversation is tracked) or "no_effect" (tracked, pair does not advance)
CaseOf(acl) ==
    LET cid == acl.conversation_id IN
    IF cid = None \/ cid = Some("") \/ cid[1] \notin DOMAIN convs
    THEN IF convs # <<>> THEN {"untracked"} ELSE {}
    ELSE IF Advances(convs[cid[1]].state, performative_upper(acl))
         THEN {} ELSE {"no_effect"}

Mgr == [convs |-> convs, futures |-> futures, callbacks |-> callbacks,
        raised |-> raised]

ConvInit ==
    /\ convs = <<>>
    /\ futures = <<>>
    /\ timers = {}
    /\ callbacks = <<>>
    /\ sending = {}
    /\ ncalls = 0
    /\ seen = {}
    /\ raised = FALSE
    /\ failed = {}

MtpInit ==
    /\ reqs = <<>>
    /\ resps = <<>>
    /\ tasks = <<>>
    /\ inbox = <<>>
    /\ called = <<>>

\* no endpoint: no dispatcher rules, no pump task
PumpOff ==
    /\ rules = <<>>
    /\ pump = "off"
    /\ taken = <<>>
    /\ events = <<>>

\* the codec and the extraction have not been called
NotParsed == [error |-> "none", why |-> "", missing |-> {}, msg |-> NoMessage]
CodecIdle ==
    /\ msg = NoMessage
    /\ wire = <<>>
    /\ parsed = NotParsed
    /\ again = <<>>
\* no extraction has run yet
NotExtracted ==
    [error |-> "none", env_txt |-> <<>>, acl_txt |-> <<>>, e |-> 0, a |-> 0]
ExtractIdle ==
    /\ body = <<>>
    /\ extracted = NotExtracted
\* neither sl0 nor the envelope has been used
NotLoaded == [t |-> "none"]
SlIdle ==
    /\ ast = NotLoaded
    /\ sl_src = None
    /\ sl_loaded = NotLoaded
EnvIdle ==
    /\ env_obj = NotLoaded
    /\ env_xml = NotLoaded
    /\ env_back = NotLoaded
\* the manager of peak_acl/conversation.py after __init__: no conversation
NewLegacy == [convs |-> <<>>, futures |-> <<>>]
LegacyIdle == legacy = NewLegacy
LibIdle == SlIdle /\ EnvIdle /\ LegacyIdle

\* a manager fed directly, next to a server without callback
Init ==
    /\ ConvInit /\ MtpInit /\ on_message_cb = FALSE
    /\ interned = TRUE /\ PumpOff /\ CodecIdle /\ ExtractIdle /\ LibIdle

\* "req = AclMessage(performative='request', ..., conversation_id=conv_id,
\* reply_with=conv_id + '.req')"
RequestFor(conv_id) ==
    [performative |-> "request", conversation_id |-> Some(conv_id),
     reply_with |-> Some(<<conv_id, ".req">>)]

\* "self._convs[conv_id] = conv", which precedes "await self._send_fn(...)"
Registered_AfterSend(cs, conv_id) == cs
Registered(cs, conv_id) ==
    put(cs, conv_id, _Conversation(conv_id, RequestFor(conv_id)))

\* send_request up to "await self._send_fn(req, url)"
Opens(conv_id, timeout) ==
    /\ HasFreshId
    /\ conv_id = _gen_conv_id
    /\ convs' = Registered(convs, conv_id)
    /\ futures' = put(futures, conv_id, NewFuture)
    /\ timers' = IF ArmsTimer(timeout) THEN timers \cup {conv_id} ELSE timers
    /\ sending' = sending \cup {conv_id}
    /\ UNCHANGED <<callbacks, ncalls, seen, raised, failed>>
    /\ UNCHANGED mtpVars
    /\ UNCHANGED appVars
SendRequest(conv_id, timeout) == Opens(conv_id, timeout) /\ UNCHANGED legacy

\* the send function returns: send_request returns the future
SendReturns(conv_id) ==
    /\ conv_id \in sending
    /\ sending' = sending \ {conv_id}
    /\ UNCHANGED <<convs, futures, timers, callbacks, ncalls, seen, raised, failed>>
    /\ UNCHANGED mtpVars
    /\ UNCHANGED extVars

\* the send function raises: the error propagates out of send_request
SendRaises(conv_id) ==
    /\ conv_id \in sending
    /\ sending' = sending \ {conv_id}
    /\ failed' = failed \cup {conv_id}
    /\ UNCHANGED <<convs, futures, timers, callbacks, ncalls, seen, raised>>
    /\ UNCHANGED mtpVars
    /\ UNCHANGED extVars

\* one call of on_message with an inbound message
Feeds(acl) ==
    /\ ncalls < MaxCalls
    /\ LET R == on_message(Mgr, acl)
       IN /\ convs' = R.convs
          /\ futures' = R.futures
          /\ callbacks' = R.callbacks
          /\ raised' = R.raised
    /\ seen' = seen \cup CaseOf(acl)
    /\ ncalls' = ncalls + 1
    /\ UNCHANGED <<timers, sending, failed>>
    /\ UNCHANGED mtpVars
    /\ UNCHANGED appVars
OnMessage(acl) == Feeds(acl) /\ UNCHANGED legacy

\* the loop runs the call_later handle of a conversation
Timeout(conv_id) ==
    /\ conv_id \in timers
    /\ timers' = timers \ {conv_id}
    /\ LET R == _on_timeout(Mgr, conv_id)
       IN /\ convs' = R.convs
          /\ futures' = R.futures
          /\ callbacks' = R.callbacks
          /\ raised' = R.raised
    /\ UNCHANGED <<sending, ncalls, seen, failed>>
    /\ UNCHANGED mtpVars
    /\ UNCHANGED extVars

\* the loop runs the oldest scheduled done-callback:
\* "lambda f, cid=conv_id: self._convs.pop(cid, None)"
RunCallback ==
    /\ callbacks # <<>>
    /\ convs' = pop(convs, Head(callbacks))
    /\ callbacks' = Tail(callbacks)
    /\ UNCHANGED <<futures, timers, sending, ncalls, seen, raised, failed>>
    /\ UNCHANGED mtpVars
    /\ UNCHANGED extVars

Next ==
    \/ \E c \in ConvIds, t \in Timeouts : SendRequest(c, t)
    \/ \E c \in ConvIds : SendReturns(c)
    \/ \E c \in ConvIds : SendRaises(c)
    \/ \E acl \in InboundMsgs : OnMessage(acl)
    \/ \E c \in ConvIds : Timeout(c)
    \/ RunCallback

Spec == Init /\ [][Next]_vars

\* the loop keeps running: due timers fire and scheduled callbacks run
LiveSpec ==
    /\ Init /\ [][Next]_vars
    /\ WF_vars(\E c \in ConvIds : Timeout(c))
    /\ WF_vars(RunCallback)

TypeOK ==
    /\ DOMAIN convs \subseteq ConvIds
    /\ DOMAIN futures \subseteq ConvIds
    /\ DOMAIN convs \subseteq DOMAIN futures
    /\ timers \subseteq DOMAIN futures
    /\ ncalls \in 0..MaxCalls
    /\ \A c \in DOMAIN convs : convs[c].state \in {"pending", "agreed", "refused"}

(***************************************************************************)
(* The two ConversationManager implementations, fed the same calls          *)
(***************************************************************************)
\* peak_acl/conversation.py send_request up to "await self._send_fn(req, url)":
\* no timeout parameter, no done-callback
legacy_send_request(L, conv_id) ==
    [convs |-> put(L.convs, conv_id, _Conversation(conv_id, RequestFor(conv_id))),
     futures |-> put(L.futures, conv_id, NewFuture)]

\* "if not conv.future.done(): conv.future.set_result(acl)"
legacy_resolve(fs, key, acl) ==
    IF done(fs[key]) THEN fs ELSE [fs EXCEPT ![key] = set_result(fs[key], acl).fut]

\* peak_acl/conversation.py ConversationManager.on_message as a function of
\* the manager's state
legacy_on_message(L, acl) ==
    LET cid == acl.conversation_id IN
    IF cid = None \/ cid = Some("") \/ cid[1] \notin DOMAIN L.convs THEN L
    ELSE LET key == cid[1]
             conv == L.convs[key]
             perf == performative_upper(acl)
         IN IF conv.state = "pending"
            THEN IF perf \in {"AGREE", "REFUSE"}
                 THEN [convs |-> [L.convs EXCEPT ![key] =
                                     [conv EXCEPT !.reply_agree_refuse = acl,
                                                  !.state = IF perf = "AGREE"
                                                            THEN "agreed"
                                                            ELSE "refused"]],
                       futures |-> IF perf = "REFUSE"
                                   THEN legacy_resolve(L.futures, key, acl)
                                   ELSE L.futures]
                 ELSE L
            ELSE IF conv.state \in {"agreed", "refused"} /\ perf \in {"INFORM", "FAILURE"}
                 THEN [convs |-> pop(L.convs, key),
                       futures |-> legacy_resolve(L.futures, key, acl)]
                 ELSE L

\* an application opens the same conversation with both managers, without
\* timeout; _gen_conv_id is the same function in both modules
BothSendRequest(conv_id) ==
    /\ Opens(conv_id, None)
    /\ legacy' = legacy_send_request(legacy, conv_id)

\* the same inbound message is fed to both managers
BothOnMessage(acl) ==
    /\ Feeds(acl)
    /\ legacy' = legacy_on_message(legacy, acl)

InitManagers == Init

NextManagers ==
    \/ \E c \in ConvIds : BothSendRequest(c)
    \/ \E c \in ConvIds : SendReturns(c)
    \/ \E acl \in InboundMsgs : BothOnMessage(acl)
    \/ RunCallback

SpecManagers == InitManagers /\ [][NextManagers]_vars

(***************************************************************************)
(* HttpMtpServer                                                           *)
(***************************************************************************)
\* number of POST requests explored in one behaviour
MaxRequests == 2

\* Content-Type headers seen on the wire
CtQuoted == <<"multipart/mixed", Semi, "boundary=", Quote, "B", Quote>>
CtBare == <<"multipart/mixed", Semi, "BOUNDARY=", "B">>
CtMissing == <<>>
CtNoBoundary == <<"multipart/mixed">>
CtEmptyBoundary == <<"multipart/mixed", Semi, "boundary=", Quote, Quote>>
CtOtherBoundary == <<"multipart/mixed", Semi, "boundary=", "C">>

XmlType == Hdr("Content-Type: application/xml")
PlainType == Hdr("Content-Type: text/plain")
GoodEnv == Txt("<?xml envelope")
GoodAcl == Txt("(inform :content hi)")

\* the body build_multipart produces (transport/multipart.py), with line break nl
Multipart(nl, env, acl) ==
    <<Mk("B"), nl, XmlType, nl, nl, nl, env, nl,
      Mk("B"), nl, PlainType, nl, nl, nl, acl, nl,
      Mk("B"), DD, nl>>
\* ACL part first, envelope second
Reordered(nl, env, acl) ==
    <<Mk("B"), nl, PlainType, nl, nl, acl, nl,
      Mk("B"), nl, XmlType, nl, nl, env, nl,
      Mk("B"), DD, nl>>
\* sub-parts without headers
Headerless(nl, env, acl) ==
    <<Mk("B"), nl, env, nl, Mk("B"), nl, acl, nl, Mk("B"), DD, nl>>
\* a single part
OnePart(nl, env) == <<Mk("B"), nl, XmlType, nl, nl, env, nl, Mk("B"), DD, nl>>

Request(ctype, raw, read) == [ctype |-> ctype, raw |-> raw, read |-> read]

\* the requests posted to the server; read is the outcome of request.read():
\* "ok", or the error aiohttp raises for a body over client_max_size or for a
\* connection that breaks while the body is read
Requests ==
    { Request(CtQuoted, Multipart(CRLF, GoodEnv, GoodAcl), "ok"),
      Request(CtBare, Reordered(CRLF, GoodEnv, GoodAcl), "ok"),
      Request(CtQuoted, Headerless(LF, GoodEnv, GoodAcl), "ok"),
      Request(CtQuoted, Multipart(LF, Txt("<?xml broken"), GoodAcl), "ok"),
      Request(CtQuoted, Multipart(CRLF, Txt("<?xml no-date"), GoodAcl), "ok"),
      Request(CtQuoted, Multipart(CRLF, GoodEnv, Txt("(inform")), "ok"),
      Request(CtQuoted, OnePart(CRLF, GoodEnv), "ok"),
      Request(CtQuoted, <<>>, "ok"),
      Request(CtOtherBoundary, Multipart(CRLF, GoodEnv, GoodAcl), "ok"),
      Request(CtMissing, Multipart(CRLF, GoodEnv, GoodAcl), "ok"),
      Request(CtNoBoundary, Multipart(CRLF, GoodEnv, GoodAcl), "ok"),
      Request(CtEmptyBoundary, Multipart(CRLF, GoodEnv, GoodAcl), "ok"),
      Request(CtQuoted, Multipart(CRLF, GoodEnv, GoodAcl), "HTTPRequestEntityTooLarge"),
      Request(CtQuoted, Multipart(CRLF, GoodEnv, GoodAcl), "ConnectionResetError") }

Response(status, text) == [status |-> status, text |-> text]

\* "resp = web.Response(text='ok', status=200, ...)"
OkResponse == Response(200, "ok")

\* _error_middleware: an HTTPException passes through with its own status,
\* any other exception becomes HTTPInternalServerError
_error_middleware(exc) ==
    IF exc = "HTTPRequestEntityTooLarge"
    THEN Response(413, "Request Entity Too Large")
    ELSE Response(500, "internal error")

\* "if not m: ... return resp"
NoBoundaryResponse_BadRequest == Response(400, "missing boundary")
NoBoundaryResponse == OkResponse

\* the handler after safe_create_task: "return resp", the task is not awaited
NoResponse == Response(0, "")
AfterSpawn_Awaits(resp) == NoResponse
AfterSpawn(resp) == resp

Task(st, boundary, runs) == [st |-> st, boundary |-> boundary, runs |-> runs]
NoTask == Task("none", "", 0)

\* _handle_post once the body is read and the boundary searched
Answer(m) ==
    IF m = <<>>
    THEN /\ resps' = Append(resps, NoBoundaryResponse)
         /\ tasks' = Append(tasks, NoTask)
    ELSE /\ resps' = Append(resps, AfterSpawn(OkResponse))
         /\ tasks' = Append(tasks, Task("scheduled", m[1], 0))

\* HttpMtpServer._handle_post (behind _error_middleware) for one request
HandlePost(req) ==
    /\ Len(reqs) < MaxRequests
    /\ reqs' = Append(reqs, req)
    /\ IF req.read # "ok"
       THEN /\ resps' = Append(resps, _error_middleware(req.read))
            /\ tasks' = Append(tasks, NoTask)
       ELSE Answer(BoundarySearch(req.ctype))
    /\ UNCHANGED <<on_message_cb, inbox, called>>
    /\ UNCHANGED convVars
    /\ UNCHANGED extVars

\* the first exception of the try block of _process_raw, "" when there is none
ParseError(x) ==
    IF x.error # "" THEN x.error
    ELSE IF Envelope_from_xml(x.env_txt) # "" THEN Envelope_from_xml(x.env_txt)
    ELSE parse_acl(x.acl_txt)

\* "except ValueError ... except Exception": what the try block catches
CatchesParse_ValueErrorOnly(exc) == exc = "ValueError"
CatchesParse(exc) == TRUE

\* "except Exception" around the delivery
CatchesCallback_Nothing(exc) == FALSE
CatchesCallback(exc) == TRUE

\* the (Envelope, AclMessage) pair built from request r
Pair(r, x) == [req |-> r, env |-> x.env_txt, acl |-> x.acl_txt]

\* "if self._on_message is not None": the callback, else the inbox
UsesCallback_Never(cb) == FALSE
UsesCallback(cb) == cb

\* _process_raw after the try block: exc is its exception ("" for none)
Deliver(r, x, exc, runs) ==
    IF exc # ""
    THEN /\ tasks' = [tasks EXCEPT ![r] =
               Task(IF CatchesParse(exc) THEN "dropped" ELSE "failed",
                    tasks[r].boundary, runs)]
         /\ UNCHANGED <<inbox, called>>
    ELSE IF UsesCallback(on_message_cb)
         THEN /\ called' = Append(called, Pair(r, x))
              /\ tasks' = [tasks EXCEPT ![r] = Task("in_callback", tasks[r].boundary, runs)]
              /\ UNCHANGED inbox
         ELSE /\ inbox' = Append(inbox, Pair(r, x))      \* unbounded Queue.put
              /\ tasks' = [tasks EXCEPT ![r] = Task("delivered", tasks[r].boundary, runs)]
              /\ UNCHANGED called
ParseAndDeliver(r, x) == Deliver(r, x, ParseError(x), tasks[r].runs + 1)

\* asyncio.create_task: the loop starts the tasks in the order of creation
RunsNext_Any(r) == TRUE
RunsNext(r) == \A q \in 1..(r - 1) : tasks[q].st # "scheduled"

\* _process_raw up to its first suspension: parse, then deliver
ProcessRaw(r) ==
    /\ r \in DOMAIN tasks
    /\ tasks[r].st = "scheduled"
    /\ RunsNext(r)
    /\ ParseAndDeliver(r, _extract_envelope_acl(reqs[r].raw, tasks[r].boundary))
    /\ UNCHANGED <<on_message_cb, reqs, resps>>
    /\ UNCHANGED convVars
    /\ UNCHANGED extVars

\* the registered callback returns
CallbackReturns(r) ==
    /\ r \in DOMAIN tasks
    /\ tasks[r].st = "in_callback"
    /\ tasks' = [tasks EXCEPT ![r].st = "delivered"]
    /\ UNCHANGED <<on_message_cb, reqs, resps, inbox, called>>
    /\ UNCHANGED convVars
    /\ UNCHANGED extVars

\* the registered callback raises
CallbackRaises(r) ==
    /\ r \in DOMAIN tasks
    /\ tasks[r].st = "in_callback"
    /\ tasks' = [tasks EXCEPT ![r].st =
           IF CatchesCallback("Exception") THEN "callback_error" ELSE "failed"]
    /\ UNCHANGED <<on_message_cb, reqs, resps, inbox, called>>
    /\ UNCHANGED convVars
    /\ UNCHANGED extVars

\* a server with or without a registered callback, and an idle manager
InitMtp ==
    /\ ConvInit /\ MtpInit /\ on_message_cb \in BOOLEAN
    /\ interned \in BOOLEAN /\ PumpOff /\ CodecIdle /\ ExtractIdle /\ LibIdle

NextMtp ==
    \/ \E req \in Requests : HandlePost(req)
    \/ \E r \in 1..MaxRequests : ProcessRaw(r)
    \/ \E r \in 1..MaxRequests : CallbackReturns(r)
    \/ \E r \in 1..MaxRequests : CallbackRaises(r)

SpecMtp == InitMtp /\ [][NextMtp]_vars

(***************************************************************************)
(* CommEndpoint: server inbox -> pump -> dispatcher / conversation manager  *)
(***************************************************************************)
\* the endpoint runs one conversation: the first id _gen_conv_id hands out
EndpointConv == AllConvIds[1]

\* the replies a peer posts for that conversation: every reply performative,
\* and an INFORM without content, which parse rejects
ReplyPerformatives == {"agree", "refuse", "inform", "failure"}
Reply(perf, cid) == Message(perf, Some(<<"q">>), None, Some(cid), None)
EndpointRequests ==
    { Request(CtQuoted, Multipart(CRLF, GoodEnv, AclTxt(dumps(Reply(p, EndpointConv)))),
              "ok") : p \in ReplyPerformatives }
    \cup { Request(CtQuoted,
                   Multipart(CRLF, GoodEnv,
                             AclTxt(dumps(Message("inform", None, None,
                                                  Some(EndpointConv), None)))),
                   "ok") }

\* the AclMessage of a pair: what parse_acl returned for its text
AclOf(pair) == parse(pair.acl[1].v).msg

\* MessageTemplate: the fields given are upper-cased (performative) or
\* lower-cased (protocol, ontology); None for a field not given
MessageTemplate(performative, protocol, ontology) ==
    [performative |-> performative, protocol |-> protocol, ontology |-> ontology]
\* MessageTemplate.match; the replies of the model carry neither protocol nor
\* ontology, so "(acl.protocol or '').lower()" is the empty string
match(tmpl, acl) ==
    /\ tmpl.performative # None => performative_upper(acl) = tmpl.performative[1]
    /\ tmpl.protocol # None => tmpl.protocol[1] = ""
    /\ tmpl.ontology # None => tmpl.ontology[1] = ""

\* InboundDispatcher.dispatch: "for tmpl, cb in self._rules: if tmpl.match(acl):
\* asyncio.create_task(cb(sender, acl)); return True"; the number of the rule
\* whose callback is spawned, 0 when no rule matches
RECURSIVE FirstRule(_, _, _)
FirstRule(rs, acl, i) ==
    IF i > Len(rs) THEN 0
    ELSE IF match(rs[i], acl) THEN i
    ELSE FirstRule(rs, acl, i + 1)
dispatch_rule(acl) == FirstRule(rules, acl, 1)
dispatch(acl) == dispatch_rule(acl) # 0

\* what the pump did with a pair; rule is the handler spawned, 0 for none
Took(pair, acl, what, rule) ==
    [req |-> pair.req, acl |-> acl, what |-> what, rule |-> rule]
MsgEvent(pair, acl) == [req |-> pair.req, acl |-> acl]

\* "env, acl = await self.inbox.get()": the oldest pair
inbox_get_Newest(q) == [item |-> q[Len(q)], rest |-> SubSeq(q, 1, Len(q) - 1)]
inbox_get(q) == [item |-> Head(q), rest |-> Tail(q)]

\* "if handled: continue"
Continues_Never(handled) == FALSE
Continues(handled) == handled

\* "if self.conv_mgr: self.conv_mgr.on_message(acl)"
Applied_Skip(S, acl) == S
Applied(S, acl) == on_message(S, acl)

\* one round of the loop of _pump for a pair: dispatch, classify_message
\* (which returns for every message), on_message, events.put
PumpRound(pair, acl, rule, R) ==
    IF Continues(rule # 0)
    THEN /\ taken' = Append(taken, Took(pair, acl, "handled", rule))
         /\ UNCHANGED <<convs, futures, callbacks, raised, events>>
    ELSE /\ convs' = R.convs
         /\ futures' = R.futures
         /\ callbacks' = R.callbacks
         /\ raised' = R.raised
         /\ taken' = Append(taken, Took(pair, acl, "applied", rule))
         /\ events' = Append(events, MsgEvent(pair, acl))
PumpPair(pair, acl) == PumpRound(pair, acl, dispatch_rule(acl), Applied(Mgr, acl))
PumpItem(got) ==
    /\ inbox' = got.rest
    /\ PumpPair(got.item, AclOf(got.item))

\* CommEndpoint._pump: one iteration of "while True"
PumpStep ==
    /\ pump = "running"
    /\ inbox # <<>>
    /\ PumpItem(inbox_get(inbox))
    /\ UNCHANGED <<timers, sending, ncalls, seen, failed>>
    /\ UNCHANGED <<on_message_cb, reqs, resps, tasks, called>>
    /\ UNCHANGED <<interned, rules, pump, codecVars, extractVars, libVars>>

\* the rules register_handler may have added
OnInform == MessageTemplate(Some("INFORM"), None, None)
OnAgree == MessageTemplate(Some("AGREE"), None, None)
OnProtocol == MessageTemplate(None, Some("fipa-request"), None)
OnAny == MessageTemplate(None, None, None)
RuleLists ==
    {<<>>, <<OnInform>>, <<OnAgree>>, <<OnProtocol, OnInform, OnAny>>}

\* start_endpoint: a server without callback, a manager, a running pump;
\* register_handler may have added rules
InitEndpoint ==
    /\ ConvInit /\ MtpInit /\ on_message_cb = FALSE
    /\ interned = TRUE
    /\ rules \in RuleLists
    /\ pump = "running"
    /\ taken = <<>>
    /\ events = <<>>
    /\ CodecIdle /\ ExtractIdle /\ LibIdle

NextEndpoint ==
    \/ \E t \in {None, Some(5)} : SendRequest(EndpointConv, t)
    \/ SendReturns(EndpointConv)
    \/ \E req \in EndpointRequests : HandlePost(req)
    \/ \E r \in 1..MaxRequests : ProcessRaw(r)
    \/ PumpStep
    \/ Timeout(EndpointConv)
    \/ RunCallback

SpecEndpoint == InitEndpoint /\ [][NextEndpoint]_vars

MtpTypeOK ==
    /\ Len(resps) = Len(reqs)
    /\ Len(tasks) = Len(reqs)
    /\ \A r \in DOMAIN tasks :
         tasks[r].st \in {"none", "scheduled", "in_callback", "delivered",
                          "dropped", "callback_error"}

(***************************************************************************)
(* _extract_envelope_acl on its own: every body of up to MaxParts parts     *)
(***************************************************************************)
\* number of parts of the bodies explored
MaxParts == 3

\* a sub-part: its header lines (none, or one Content-Type) and its payload
PartHeaders == {<<>>, <<XmlType>>, <<PlainType>>}
PartBodies == {GoodEnv, GoodAcl, Txt("junk"), Byte("a")}
Part(h, b) == [h |-> h, b |-> b]
PartLists ==
    UNION {[1..n -> {Part(h, b) : h \in PartHeaders, b \in PartBodies}] :
           n \in 1..MaxParts}

\* the bytes of one sub-part after its boundary marker, with line break nl
Chunk(nl, p) ==
    IF p.h = <<>> THEN <<nl, p.b, nl>> ELSE <<nl>> \o p.h \o <<nl, nl, p.b, nl>>
\* the raw body: marker and chunk per part, then the closing marker
RECURSIVE RawBody(_, _)
RawBody(nl, ps) ==
    IF ps = <<>> THEN <<Mk("B"), DD, nl>>
    ELSE <<Mk("B")>> \o Chunk(nl, Head(ps)) \o RawBody(nl, Tail(ps))

InitExtract ==
    /\ ConvInit
    /\ MtpInit
    /\ on_message_cb = FALSE
    /\ interned \in BOOLEAN
    /\ PumpOff
    /\ CodecIdle
    /\ LibIdle
    /\ body \in {RawBody(nl, ps) : nl \in {CRLF, LF}, ps \in PartLists}
    /\ extracted = NotExtracted

\* one call of _extract_envelope_acl(raw, boundary_bytes)
Extract ==
    /\ extracted = NotExtracted
    /\ extracted' = _extract_envelope_acl(body, "B")
    /\ UNCHANGED <<body, interned>>
    /\ UNCHANGED convVars
    /\ UNCHANGED mtpVars
    /\ UNCHANGED pumpVars
    /\ UNCHANGED codecVars
    /\ UNCHANGED libVars

NextExtract == Extract

SpecExtract == InitExtract /\ [][NextExtract]_vars

(***************************************************************************)
(* The codec on its own: dumps, parse, dumps again                          *)
(***************************************************************************)
\* the messages an application builds: a performative, a string content or
\* none, a language or none, a conversation id or none
CodecPerformatives == {"inform", "agree"}
CodecConvIds == {None, Some("c1")}
Messages ==
    {Message(p, c, l, cid, None) :
        p \in CodecPerformatives,
        c \in {None} \cup {Some(x) : x \in Contents},
        l \in Languages,
        cid \in CodecConvIds}

\* ACL strings that arrive from another platform
RawTexts ==
    { <<LParen, "inform", ":CONTENT", Quote, "q", Quote, RParen>>,
      <<LParen, "REQUEST", Space, ":language", "english", RParen>>,
      <<LParen, "request", ":content", "q", ":content", Quote, LParen, Quote, RParen>>,
      <<LParen, "agree", ":reply-with", "r1", RParen>>,
      <<LParen, "inform", ":content", Quote, "q", RParen>>,
      <<LParen, "inform", RParen, RParen>>,
      <<LParen, "agree", ":Weird", "w1", ":X-Tag", Quote, "q", Backslash, Quote, Quote, RParen>>,
      <<LParen, "inform", ":Weird", "w1", ":content", Quote, Quote, ":WEIRD", "w2",
        ":Weird", "w3", RParen>>,
      <<LParen, "request", ":weird", Quote, EAcute, Quote, RParen>> }

InitCodec ==
    /\ ConvInit
    /\ MtpInit
    /\ on_message_cb = FALSE
    /\ interned = TRUE
    /\ PumpOff
    /\ ExtractIdle
    /\ LibIdle
    /\ msg \in Messages \cup {NoMessage}
    /\ wire = <<>>
    /\ parsed = NotParsed
    /\ again = <<>>

\* dumps(msg)
Dumps ==
    /\ msg # NoMessage
    /\ wire = <<>>
    /\ wire' = dumps(msg)
    /\ UNCHANGED <<msg, parsed, again>>

\* an ACL string received instead of one built here
Receive(text) ==
    /\ msg = NoMessage
    /\ wire = <<>>
    /\ wire' = text
    /\ UNCHANGED <<msg, parsed, again>>

\* parse(wire)
Parse ==
    /\ wire # <<>>
    /\ parsed = NotParsed
    /\ parsed' = parse(wire)
    /\ UNCHANGED <<msg, wire, again>>

\* dumps of the message parse returned
Redump ==
    /\ parsed.error = ""
    /\ again = <<>>
    /\ again' = dumps(parsed.msg)
    /\ UNCHANGED <<msg, wire, parsed>>

NextCodec ==
    /\ \/ Dumps
       \/ \E text \in RawTexts : Receive(text)
       \/ Parse
       \/ Redump
    /\ UNCHANGED <<interned, convVars, mtpVars, pumpVars, extractVars, libVars>>

SpecCodec == InitCodec /\ [][NextCodec]_vars

(***************************************************************************)
(* build_multipart, then the receiving side: extraction, from_xml, parse    *)
(***************************************************************************)
\* names of the destination agent; the source agent
AgentNames == {"b", "receiver@localhost:7778/JADE"}
SourceName == "a"

\* build_multipart(to_ai, from_ai, msg): the body; its boundary is "B"
build_multipart(to, from, m) == Multipart(CRLF, EnvXml(to, from), AclTxt(dumps(m)))

\* Envelope.from_xml(xml).to_.name
Envelope_to_name(txt) == txt[1].v.to

InitWire ==
    /\ ConvInit
    /\ MtpInit
    /\ on_message_cb = FALSE
    /\ interned = TRUE
    /\ PumpOff
    /\ ExtractIdle
    /\ LibIdle
    /\ msg \in {m \in Messages : m.content # None}
    /\ wire = <<>>
    /\ parsed = NotParsed
    /\ again = <<>>

\* body, ctype = build_multipart(to_ai, from_ai, msg)
BuildMultipart(to) ==
    /\ body = <<>>
    /\ body' = build_multipart(to, SourceName, msg)
    /\ UNCHANGED <<extracted, codecVars>>

\* env_xml, acl_txt = _extract_envelope_acl(body, boundary)
ExtractBuilt ==
    /\ body # <<>>
    /\ extracted = NotExtracted
    /\ extracted' = _extract_envelope_acl(body, "B")
    /\ UNCHANGED <<body, codecVars>>

\* acl = parse(acl_txt)
ParseExtracted ==
    /\ extracted.error = ""
    /\ IsAclString(extracted.acl_txt)
    /\ parsed = NotParsed
    /\ wire' = extracted.acl_txt[1].v
    /\ parsed' = parse(extracted.acl_txt[1].v)
    /\ UNCHANGED <<msg, again, extractVars>>

NextWire ==
    /\ \/ \E to \in AgentNames : BuildMultipart(to)
       \/ ExtractBuilt
       \/ ParseExtracted
    /\ UNCHANGED <<interned, convVars, mtpVars, pumpVars, libVars>>

SpecWire == InitWire /\ [][NextWire]_vars

(***************************************************************************)
(* SL0 on its own: dumps then loads, and loads of texts written by hand     *)
(***************************************************************************)
SlStrings == {<<"x">>, <<"my", "service">>, <<>>}
SlAids ==
    {AgentIdentifier(n, a) :
        n \in {<<"df">>, <<"my", "agent">>},
        a \in {<<>>, << <<"u1">>, <<"u2">> >>}}
SlProps == {<<>>, <<[n |-> <<"k">>, v |-> <<"v">>]>>, <<[n |-> <<"k">>, v |-> <<"v", "w">>]>>}
SlSds ==
    {ServiceDescription(n, ty, l, <<>>, <<>>, p) :
        n \in {None} \cup {Some(PyStr(w)) : w \in SlStrings},
        ty \in {None, Some(PyStr(<<"t">>))},
        l \in {<<>>, << <<"l1">>, <<"l2">> >>},
        p \in SlProps}
SlDfads ==
    {DfAgentDescription(n, sv, <<>>, <<>>, p, o) :
        n \in {None} \cup {Some(a) : a \in SlAids},
        sv \in {<<>>, <<ServiceDescription(Some(PyStr(<<"x">>)), Some(PyStr(<<"t">>)),
                                   <<>>, <<>>, <<>>, <<>>)>>},
        p \in {<<>>, << <<"p1">> >>},
        o \in {<<>>, << <<"o1">> >>}}
SlActs ==
    {Register(d) : d \in SlDfads} \cup {Deregister(d) : d \in SlDfads}
    \cup {Modify(d) : d \in SlDfads}
    \cup {Search(d, m) : d \in SlDfads, m \in {None, Some(3)}}
SlActions == {Action(AgentIdentifier(<<"df">>, <<>>), a) : a \in SlActs}
SlPlain == {PyStr(w) : w \in {<<"x">>, <<"not", "found">>}}
SlValues ==
    SlSds \cup SlDfads \cup SlActs \cup SlActions
    \cup {Done(w) : w \in SlPlain \cup SlActions}
    \cup {Failure(w) : w \in SlPlain}
    \cup {Result(w, v) : w \in SlPlain, v \in SlPlain \cup SlDfads}

\* texts written by hand: one list-valued slot, wrapped or bare
Wrappers == {"sequence", "set", "SEQUENCE", "Set", "bare"}
SlElems == {<<>>, <<"a">>, <<"a", "b">>}
ListSlots == {":addresses", ":languages", ":ontologies", ":protocols", ":ownership"}
ListText(w, elems) ==
    <<LParen>> \o (IF w = "bare" THEN <<>> ELSE <<w>>) \o elems \o <<RParen>>
RawText(slot, w, elems) ==
    IF slot = ":addresses"
    THEN <<LParen, "agent-identifier", ":name", "df", slot>>
         \o ListText(w, elems) \o <<RParen>>
    ELSE <<LParen, "df-agent-description", slot>> \o ListText(w, elems) \o <<RParen>>
RawSdText(slot, w, elems) ==
    <<LParen, "service-description", slot>> \o ListText(w, elems) \o <<RParen>>
SdListSlots == {":languages", ":ontologies", ":protocols"}

InitSl0 ==
    /\ ConvInit
    /\ MtpInit
    /\ on_message_cb = FALSE
    /\ interned = TRUE
    /\ PumpOff
    /\ CodecIdle
    /\ ExtractIdle
    /\ EnvIdle /\ LegacyIdle
    /\ ast \in SlValues \cup {NotLoaded}
    /\ sl_src = None
    /\ sl_loaded = NotLoaded

\* text = sl0.dumps(obj)
SlDumps ==
    /\ ast # NotLoaded
    /\ sl_src = None
    /\ sl_src' = Some(sl0_dumps(ast))
    /\ UNCHANGED <<ast, sl_loaded>>

\* a text that arrives from another agent
SlReceive(text) ==
    /\ ast = NotLoaded
    /\ sl_src = None
    /\ sl_src' = Some(text)
    /\ UNCHANGED <<ast, sl_loaded>>

\* obj = sl0.loads(text)
SlLoads ==
    /\ sl_src # None
    /\ sl_loaded = NotLoaded
    /\ sl_loaded' = sl0_loads(sl_src[1])
    /\ UNCHANGED <<ast, sl_src>>

NextSl0 ==
    /\ \/ SlDumps
       \/ \E slot \in ListSlots, w \in Wrappers, elems \in SlElems :
            SlReceive(RawText(slot, w, elems))
       \/ \E slot \in SdListSlots, w \in Wrappers, elems \in SlElems :
            SlReceive(RawSdText(slot, w, elems))
       \/ SlLoads
    /\ UNCHANGED <<interned, convVars, mtpVars, pumpVars, codecVars, extractVars, envVars, legacy>>

SpecSl0 == InitSl0 /\ [][NextSl0]_vars

(***************************************************************************)
(* The envelope on its own: to_xml, then from_xml of the document           *)
(***************************************************************************)
EnvNames == {<<"bob">>, <<>>}
EnvAddresses == {<<>>, << <<"u1">>, <<"u2">> >>, << <<"u1">>, <<>> >>}
EnvDates ==
    {DateTime(y, mo, 1, 12, 0, sec, us, off) :
        y \in {999, 2025}, mo \in {1, 12}, sec \in {0, 59},
        us \in {123456, 999999}, off \in {0, 5}}
PayloadLengths == {0, 120, 0 - 5}
AclReps == {<<"fipa.acl.rep.string.std">>, <<>>}
Envelopes ==
    {Envelope(AgentIdentifier(n, a), AgentIdentifier(<<"alice">>, fa), d, pl, rep) :
        n \in EnvNames, a \in EnvAddresses, fa \in {<< <<"u3">> >>},
        d \in EnvDates, pl \in PayloadLengths, rep \in AclReps}

InitEnvelope ==
    /\ ConvInit
    /\ MtpInit
    /\ on_message_cb = FALSE
    /\ interned = TRUE
    /\ PumpOff
    /\ CodecIdle
    /\ ExtractIdle
    /\ SlIdle /\ LegacyIdle
    /\ env_obj \in Envelopes
    /\ env_xml = NotLoaded
    /\ env_back = NotLoaded

\* xml = env.to_xml()
ToXml(pad_year) ==
    /\ env_xml = NotLoaded
    /\ env_xml' = to_xml(env_obj, pad_year)
    /\ UNCHANGED <<env_obj, env_back>>

\* parsed = Envelope.from_xml(xml)
FromXml ==
    /\ env_xml # NotLoaded
    /\ env_back = NotLoaded
    /\ env_back' = from_xml(env_xml)
    /\ UNCHANGED <<env_obj, env_xml>>

NextEnvelope ==
    /\ \/ \E pad_year \in BOOLEAN : ToXml(pad_year)
       \/ FromXml
    /\ UNCHANGED <<interned, convVars, mtpVars, pumpVars, codecVars, extractVars, slVars, legacy>>

SpecEnvelope == InitEnvelope /\ [][NextEnvelope]_vars

(***************************************************************************)
(* Conversation manager: properties                                        *)
(***************************************************************************)
Resolved(acl) == [status |-> "result", msg |-> acl, exc |-> ""]
TimedOut == [status |-> "exception", msg |-> NoMsg, exc |-> "TimeoutError"]
Tracked(acl) ==
    /\ acl.conversation_id # None
    /\ acl.conversation_id[1] \in DOMAIN convs
KeyOf(acl) == acl.conversation_id[1]

\* C1 (as stated): a REFUSE for a tracked conversation in state pending
\* resolves the handle with that REFUSE and removes the conversation from the
\* index within the same on_message call.
C1_AsStated ==
    [][\A acl \in InboundMsgs :
        (/\ Tracked(acl)
         /\ performative_upper(acl) = "REFUSE"
         /\ convs[KeyOf(acl)].state = "pending"
         /\ OnMessage(acl))
        => (/\ futures'[KeyOf(acl)] = Resolved(acl)
            /\ KeyOf(acl) \notin DOMAIN convs')]_vars

\* C1 (amended): a REFUSE for a tracked conversation in state pending whose
\* handle is still unresolved resolves the handle with that REFUSE and removes
\* the conversation from the index within the same on_message call.
C1_RefuseResolvesAndRemoves ==
    [][\A acl \in InboundMsgs :
        (/\ Tracked(acl)
         /\ performative_upper(acl) = "REFUSE"
         /\ convs[KeyOf(acl)].state = "pending"
         /\ ~done(futures[KeyOf(acl)])
         /\ OnMessage(acl))
        => (/\ futures'[KeyOf(acl)] = Resolved(acl)
            /\ KeyOf(acl) \notin DOMAIN convs')]_vars

\* C1 witness: a handle resolved with a REFUSE whose conversation has left the
\* index although its done-callback has not run yet
C1_Witness ==
    \E c \in DOMAIN futures :
        /\ futures[c].status = "result"
        /\ performative_upper(futures[c].msg) = "REFUSE"
        /\ c \notin DOMAIN convs
        /\ \E i \in DOMAIN callbacks : callbacks[i] = c

\* C2 (as stated): AGREE on a pending tracked conversation moves it to agreed,
\* records the AGREE, leaves the handle unresolved and the conversation in the
\* index; INFORM or FAILURE on a conversation in state agreed resolves the
\* handle with that message and removes the conversation.
C2_AsStated ==
    [][\A acl \in InboundMsgs :
        /\ (/\ Tracked(acl)
            /\ performative_upper(acl) = "AGREE"
            /\ convs[KeyOf(acl)].state = "pending"
            /\ OnMessage(acl))
           => (/\ KeyOf(acl) \in DOMAIN convs'
               /\ convs'[KeyOf(acl)].state = "agreed"
               /\ convs'[KeyOf(acl)].reply_agree_refuse = acl
               /\ futures'[KeyOf(acl)].status = "pending")
        /\ (/\ Tracked(acl)
            /\ performative_upper(acl) \in {"INFORM", "FAILURE"}
            /\ convs[KeyOf(acl)].state = "agreed"
            /\ OnMessage(acl))
           => (/\ futures'[KeyOf(acl)] = Resolved(acl)
               /\ KeyOf(acl) \notin DOMAIN convs')]_vars

\* C2 (amended): as stated, for a conversation whose handle is still unresolved
\* when the AGREE, and later the INFORM or FAILURE, arrives (no timeout has
\* fired in between); the handle is then resolved with the INFORM or FAILURE
\* message, never with the captured AGREE.
C2_AgreeThenFinalReply ==
    [][\A acl \in InboundMsgs :
        /\ (/\ Tracked(acl)
            /\ performative_upper(acl) = "AGREE"
            /\ convs[KeyOf(acl)].state = "pending"
            /\ ~done(futures[KeyOf(acl)])
            /\ OnMessage(acl))
           => (/\ KeyOf(acl) \in DOMAIN convs'
               /\ convs'[KeyOf(acl)].state = "agreed"
               /\ convs'[KeyOf(acl)].reply_agree_refuse = acl
               /\ futures'[KeyOf(acl)].status = "pending")
        /\ (/\ Tracked(acl)
            /\ performative_upper(acl) \in {"INFORM", "FAILURE"}
            /\ convs[KeyOf(acl)].state = "agreed"
            /\ ~done(futures[KeyOf(acl)])
            /\ OnMessage(acl))
           => (/\ futures'[KeyOf(acl)] = Resolved(acl)
               /\ futures'[KeyOf(acl)].msg # convs[KeyOf(acl)].reply_agree_refuse
               /\ KeyOf(acl) \notin DOMAIN convs')]_vars

\* C2 witness: a handle resolved with an INFORM or FAILURE (only an agreed
\* conversation gets one) whose conversation has left the index
C2_Witness ==
    \E c \in DOMAIN futures :
        /\ futures[c].status = "result"
        /\ performative_upper(futures[c].msg) \in {"INFORM", "FAILURE"}
        /\ c \notin DOMAIN convs

\* C3: a handle is resolved at most once: once it holds an outcome no step
\* replaces it, and no on_message call or timeout raises.
C3_ResolvedAtMostOnce ==
    [][/\ \A c \in DOMAIN futures :
            done(futures[c]) => (c \in DOMAIN futures' /\ futures'[c] = futures[c])
       /\ ~raised']_vars

\* C3 witness: a reply was applied to a conversation after its handle had been
\* resolved by the timeout (state refused in the index arises in no other way)
C3_Witness ==
    \E c \in DOMAIN convs :
        /\ convs[c].state = "refused"
        /\ futures[c] = TimedOut
        /\ ~raised

\* C4: when the timer of a conversation fires while its handle is unresolved
\* (state pending or agreed) the handle resolves with the timeout error and the
\* removing done-callback is scheduled; every conversation started with a
\* positive timeout eventually leaves the index.
C4_TimeoutResolvesAndRemoves ==
    /\ [][\A c \in ConvIds :
            (c \in timers /\ c \in DOMAIN futures /\ ~done(futures[c]) /\ Timeout(c))
            => (/\ futures'[c] = TimedOut
                /\ callbacks' = Append(callbacks, c))]_vars
    /\ \A c \in ConvIds : (c \in timers) ~> (c \notin DOMAIN convs)

\* C4 witness: a conversation whose handle holds the timeout error and which
\* has left the index
C4_Witness ==
    \E c \in DOMAIN futures :
        /\ futures[c] = TimedOut
        /\ c \notin DOMAIN convs
        /\ c \notin timers

\* C5: an on_message call for a tracked conversation whose (state,
\* performative) pair is not one of pending/AGREE, pending/REFUSE,
\* agreed-or-refused/INFORM, agreed-or-refused/FAILURE leaves the state, the
\* captured reply, the handle and the index membership as they were.
C5_OtherPairsChangeNothing ==
    [][\A acl \in InboundMsgs :
        (/\ Tracked(acl)
         /\ ~Advances(convs[KeyOf(acl)].state, performative_upper(acl))
         /\ OnMessage(acl))
        => (/\ convs' = convs
            /\ futures' = futures
            /\ callbacks' = callbacks)]_vars

\* C5 witness: such a call has been made and conversations are tracked
C5_Witness == "no_effect" \in seen /\ convs # <<>>

\* C6: an on_message call whose conversation_id is None, empty or no key of
\* the index changes no conversation, no handle and not the index, and does
\* not raise.
C6_UntrackedIgnored ==
    [][\A acl \in InboundMsgs :
        (~Tracked(acl) /\ OnMessage(acl))
        => (/\ convs' = convs
            /\ futures' = futures
            /\ callbacks' = callbacks
            /\ ~raised')]_vars

\* C6 witness: such a call has been made while conversations were tracked
C6_Witness == "untracked" \in seen /\ convs # <<>> /\ ~raised

(***************************************************************************)
(* HTTP-MTP server: properties                                             *)
(***************************************************************************)
Answered == DOMAIN resps
DeliveredTo(r) ==
    \/ \E i \in DOMAIN inbox : inbox[i].req = r
    \/ \E i \in DOMAIN called : called[i].req = r

\* the Content-Type carries no boundary token: no boundary= key is followed by
\* a value
NoBoundaryToken(ctype) ==
    \A i \in 1..Len(ctype) :
        ctype[i] \in {"boundary=", "BOUNDARY="} =>
            LET j == IF i + 1 <= Len(ctype) /\ ctype[i + 1] = "\"" THEN i + 2 ELSE i + 1
            IN j > Len(ctype) \/ ctype[j] \in {"\"", ";"}

\* the body of request r splits into fewer than two parts on its boundary
FewerThanTwoParts(r) ==
    /\ tasks[r].st # "none"
    /\ Len(_split_parts(reqs[r].raw, tasks[r].boundary)) < 2

\* C7 (as stated): every request is answered with status 200 and body ok.
C7_AsStated == \A r \in Answered : resps[r] = Response(200, "ok")

\* C7 (amended): every request whose body the handler could read is answered
\* with status 200 and body ok, also without a boundary, with fewer than two
\* parts and with an envelope or ACL text that does not parse.
C7_ReadRequestsAnswered200 ==
    \A r \in Answered : reqs[r].read = "ok" => resps[r] = Response(200, "ok")

\* C7 witness: a request without boundary and a request whose task dropped the
\* message were both answered 200 ok
C7_Witness ==
    \E r1, r2 \in Answered :
        /\ NoBoundaryToken(reqs[r1].ctype) /\ reqs[r1].read = "ok"
        /\ resps[r1] = Response(200, "ok")
        /\ tasks[r2].st = "dropped"
        /\ resps[r2] = Response(200, "ok")

\* C8: the response of a request is returned before its background task takes
\* its first step: whatever the task is doing (not started, parsing done,
\* waiting for the callback, finished), the response is already there.
C8_ResponseBeforeTask ==
    \A r \in Answered : tasks[r].st # "none" => resps[r] = Response(200, "ok")

\* C8 witness: the callback of a request is still running while that request
\* and a later one already have their responses
C8_Witness ==
    \E r1, r2 \in Answered :
        /\ r1 < r2
        /\ tasks[r1].st = "in_callback"
        /\ resps[r1] = Response(200, "ok")
        /\ resps[r2] = Response(200, "ok")

\* C9: no background task ends by propagating an exception; a task runs at
\* most once per request (no retry), and a message dropped on a parse failure
\* is delivered neither to the callback nor to the inbox.
C9_TaskNeverPropagates ==
    \A r \in Answered :
        /\ tasks[r].st # "failed"
        /\ tasks[r].runs <= 1
        /\ tasks[r].st = "dropped" => ~DeliveredTo(r)

\* C9 witness: a message was dropped on an XML error that is no ValueError, and
\* for a later request the callback was called, raised and was caught
C9_Witness ==
    \E r1, r2 \in Answered :
        /\ r1 < r2
        /\ tasks[r1].st = "dropped"
        /\ ParseError(_extract_envelope_acl(reqs[r1].raw, tasks[r1].boundary)) = "ParseError"
        /\ ~DeliveredTo(r1)
        /\ tasks[r2].st = "callback_error"

\* C10: a request without boundary token, or whose body splits into fewer than
\* two parts, reaches neither the callback nor the inbox.
C10_FramingErrorsDeliverNothing ==
    \A r \in Answered :
        (reqs[r].read = "ok" /\ (NoBoundaryToken(reqs[r].ctype) \/ FewerThanTwoParts(r)))
        => ~DeliveredTo(r)

\* C10 witness: a request without boundary was answered and the task of a
\* request with fewer than two parts has run, and neither was delivered
C10_Witness ==
    \E r1, r2 \in Answered :
        /\ reqs[r1].read = "ok" /\ NoBoundaryToken(reqs[r1].ctype)
        /\ FewerThanTwoParts(r2) /\ tasks[r2].runs = 1
        /\ ~DeliveredTo(r1) /\ ~DeliveredTo(r2)

\* the number of entries of a delivery log that belong to request r
CountFor(log, r) == Cardinality({i \in DOMAIN log : log[i].req = r})

\* the task of request r has run and its body split and parsed without error
ParsedOk(r) ==
    /\ tasks[r].runs = 1
    /\ ParseError(_extract_envelope_acl(reqs[r].raw, tasks[r].boundary)) = ""

\* the pair the parts of request r decode to
PairOf(r) == Pair(r, _extract_envelope_acl(reqs[r].raw, tasks[r].boundary))

\* C11: a request whose body splits and parses is delivered exactly once: its
\* pair is handed to the registered callback once and never put on the inbox
\* when a callback was given, and put on the inbox once and never handed to a
\* callback otherwise; no request is ever delivered more than once in total.
C11_ExactlyOneDelivery ==
    \A r \in Answered :
        /\ CountFor(called, r) + CountFor(inbox, r) <= 1
        /\ ParsedOk(r) =>
              /\ CountFor(called, r) = (IF on_message_cb THEN 1 ELSE 0)
              /\ CountFor(inbox, r) = (IF on_message_cb THEN 0 ELSE 1)
              /\ \A i \in DOMAIN called : called[i].req = r => called[i] = PairOf(r)
              /\ \A i \in DOMAIN inbox : inbox[i].req = r => inbox[i] = PairOf(r)

\* C11 witness: with a callback registered, two parsed requests were each
\* handed to it once (the first call raised) and the inbox stayed empty
C11_Witness ==
    /\ on_message_cb
    /\ \E r1, r2 \in Answered :
        /\ r1 # r2 /\ ParsedOk(r1) /\ ParsedOk(r2)
        /\ tasks[r1].st = "callback_error"
        /\ CountFor(called, r1) = 1 /\ CountFor(called, r2) = 1
    /\ inbox = <<>>

\* the message request r carries, when its body parses
CarriedBy(r) ==
    parse(_extract_envelope_acl(reqs[r].raw, BoundarySearch(reqs[r].ctype)[1]).acl_txt[1].v).msg

\* request r carries a message that reaches the conversation manager if the
\* pump gets to it: its body was read, splits and parses, and no rule of the
\* dispatcher matches it
ForManager(r) ==
    /\ reqs[r].read = "ok"
    /\ BoundarySearch(reqs[r].ctype) # <<>>
    /\ ParseError(_extract_envelope_acl(reqs[r].raw, BoundarySearch(reqs[r].ctype)[1])) = ""
    /\ ~dispatch(CarriedBy(r))

\* C12: replies of one conversation are applied in arrival order: when the
\* pump has applied on_message to the message of request r2, the message of
\* every earlier request r1 of the same conversation that is meant for the
\* manager has already been applied, earlier in the pump's log.
C12_AppliedInArrivalOrder ==
    \A j \in DOMAIN taken :
        taken[j].what = "applied" =>
            \A r1 \in 1..(taken[j].req - 1) :
                (/\ ForManager(r1)
                 /\ CarriedBy(r1).conversation_id = taken[j].acl.conversation_id)
                => \E i \in 1..(j - 1) :
                       /\ taken[i].req = r1
                       /\ taken[i].what = "applied"
                       /\ taken[i].acl = CarriedBy(r1)

\* C12 witness: AGREE arrived before INFORM for a tracked conversation, both
\* went through the parse tasks, the inbox and the pump, and the handle was
\* resolved with the INFORM
C12_Witness ==
    /\ Len(taken) = 2
    /\ taken[1].req = 1 /\ taken[2].req = 2
    /\ taken[1].what = "applied" /\ taken[2].what = "applied"
    /\ performative_upper(taken[1].acl) = "AGREE"
    /\ performative_upper(taken[2].acl) = "INFORM"
    /\ EndpointConv \in DOMAIN futures
    /\ futures[EndpointConv].status = "result"
    /\ futures[EndpointConv].msg = taken[2].acl

\* a step leaves conversation B alone: its index membership, its state and
\* captured reply, and its handle
Untouched(B) ==
    /\ (B \in DOMAIN convs) <=> (B \in DOMAIN convs')
    /\ B \in DOMAIN convs => convs'[B] = convs[B]
    /\ (B \in DOMAIN futures) => (B \in DOMAIN futures' /\ futures'[B] = futures[B])

\* C13: conversations are independent: a send_request registers its own id
\* and leaves every other conversation alone, and an on_message call or a
\* timeout for one conversation id leaves every conversation with a
\* different id alone.
C13_ConversationsIndependent ==
    [][\A B \in ConvIds :
        /\ \A acl \in InboundMsgs :
              (acl.conversation_id # Some(B) /\ OnMessage(acl)) => Untouched(B)
        /\ \A c \in ConvIds \ {B} :
              /\ Timeout(c) => Untouched(B)
              /\ \A t \in Timeouts :
                    SendRequest(c, t) =>
                        /\ Untouched(B)
                        /\ c \notin DOMAIN convs /\ c \in DOMAIN convs'
                        /\ convs'[c].conv_id = c]_vars

\* C13 witness: two send_request calls are in progress at once, the first
\* conversation was refused and removed and the second timed out later, each
\* with its own outcome
C13_Witness ==
    \E A, B \in ConvIds :
        /\ A # B
        /\ sending = {A, B}
        /\ A \in DOMAIN futures /\ B \in DOMAIN futures
        /\ futures[A].status = "result"
        /\ performative_upper(futures[A].msg) = "REFUSE"
        /\ futures[A].msg.conversation_id = Some(A)
        /\ A \notin DOMAIN convs
        /\ futures[B].status = "exception"
        /\ B \in DOMAIN convs /\ convs[B].state = "pending"

\* C14: when send_request reaches the call of the send function, the new
\* conversation is in the index under its id, in state pending, and its
\* request carries that id as conversation_id and the id followed by ".req"
\* as reply_with; a first reply that arrives while the send is still in
\* progress is matched: AGREE advances the conversation, REFUSE resolves it.
C14_RegisteredBeforeSend ==
    [][\A c \in ConvIds :
        /\ (c \notin sending /\ c \in sending') =>
              /\ c \in DOMAIN convs' /\ c \in DOMAIN futures'
              /\ convs'[c].state = "pending"
              /\ convs'[c].conv_id = c
              /\ convs'[c].request_msg.conversation_id = Some(c)
              /\ convs'[c].request_msg.reply_with = Some(<<c, ".req">>)
              /\ ~done(futures'[c])
        /\ \A p \in {"agree", "REFUSE"} :
              (/\ c \in sending
               /\ c \in DOMAIN convs /\ convs[c].state = "pending"
               /\ c \in DOMAIN futures /\ ~done(futures[c])
               /\ OnMessage(AclMessage(p, Some(c))))
              => IF p = "agree"
                 THEN c \in DOMAIN convs' /\ convs'[c].state = "agreed"
                 ELSE futures'[c] = Resolved(AclMessage(p, Some(c)))]_vars

\* C14 witness: the send of a conversation is still in progress and its handle
\* is already resolved with the INFORM that followed an AGREE
C14_Witness ==
    \E c \in ConvIds :
        /\ c \in sending
        /\ c \in DOMAIN futures
        /\ futures[c].status = "result"
        /\ performative_upper(futures[c].msg) = "INFORM"

\* the parts of the body under extraction, and those that sniff as XML, as ACL
PartsOfBody == _split_parts(body, "B")
SniffXml == {i \in 1..Len(PartsOfBody) : _guess_is_envelope(PartsOfBody[i].body)}
SniffAcl == {i \in 1..Len(PartsOfBody) : _guess_is_acl(PartsOfBody[i].body)}
OneOfEach == Cardinality(SniffXml) = 1 /\ Cardinality(SniffAcl) = 1
\* the extraction returned the XML part as envelope and the ACL part as ACL
RightPair ==
    /\ extracted.error = ""
    /\ \A i \in SniffXml : extracted.env_txt = strip(PartsOfBody[i].body)
    /\ \A i \in SniffAcl : extracted.acl_txt = strip(PartsOfBody[i].body)
\* every Content-Type label agrees with what the part's payload sniffs as
LabelsAgree ==
    \A i \in 1..Len(PartsOfBody) :
        /\ HasXmlType(PartsOfBody[i].hdr) => i \in SniffXml
        /\ HasPlainType(PartsOfBody[i].hdr) => i \in SniffAcl

\* C15 as stated: whenever exactly one part sniffs as XML and exactly one as
\* a parenthesized ACL string, the extraction returns that pair
C15_AsStated == (extracted.error # "none" /\ OneOfEach) => RightPair

\* C15: whenever exactly one part sniffs as XML and exactly one as a
\* parenthesized ACL string, and no part carries a Content-Type that disagrees
\* with its payload, the extraction returns the XML part as the envelope and
\* the parenthesized part as the ACL text, in any part order, with or without
\* headers, with CRLF or bare LF line breaks
C15_TolerantExtraction ==
    (extracted.error # "none" /\ OneOfEach /\ LabelsAgree) => RightPair

\* C15 witness: an LF body of three headerless parts, the ACL string before the
\* XML document, has been extracted
C15_Witness ==
    /\ extracted.error = ""
    /\ OneOfEach
    /\ Len(PartsOfBody) = 3
    /\ \A i \in 1..3 : PartsOfBody[i].hdr = <<>>
    /\ LF \in {body[k] : k \in 1..Len(body)}
    /\ \E x \in SniffXml, a \in SniffAcl : a < x

\* the assignment as the order header, sniffing, position states it
Least(S) == CHOOSE i \in S : \A j \in S : i <= j
Greatest(S) == CHOOSE i \in S : \A j \in S : j <= i
XmlLabelled == {i \in 1..Len(PartsOfBody) : HasXmlType(PartsOfBody[i].hdr)}
PlainLabelled == {i \in 1..Len(PartsOfBody) : HasPlainType(PartsOfBody[i].hdr)}
StatedEnv ==
    IF XmlLabelled # {} THEN Least(XmlLabelled)
    ELSE IF SniffXml # {} THEN Least(SniffXml)
    ELSE 1
StatedAcl ==
    IF PlainLabelled # {} THEN Least(PlainLabelled)
    ELSE IF SniffAcl # {} THEN Least(SniffAcl)
    ELSE Greatest((1..Len(PartsOfBody)) \ {StatedEnv})
StatedSwap == StatedAcl \in SniffXml /\ StatedEnv \in SniffAcl
StatedResult ==
    IF StatedSwap
    THEN <<strip(PartsOfBody[StatedAcl].body), strip(PartsOfBody[StatedEnv].body)>>
    ELSE <<strip(PartsOfBody[StatedEnv].body), strip(PartsOfBody[StatedAcl].body)>>

\* C16: for a body of two or more parts, the envelope part is the first part
\* labelled application/xml, else the first part that starts with <?xml, else
\* the first part; the ACL part is the first part labelled text/plain, else
\* the first part that starts with "(", else the last part other than the
\* envelope part; the two are swapped in the result when the ACL part sniffs
\* as XML while the envelope part sniffs as ACL.
C16_AsStated ==
    (extracted.error # "none" /\ Len(PartsOfBody) >= 2) =>
        /\ extracted.error = ""
        /\ <<extracted.env_txt, extracted.acl_txt>> = StatedResult

\* C16 witness: the positional fallback skipped the last part, another part
\* than the envelope part, because its payload is the same single byte
C16_Witness ==
    /\ extracted.error = ""
    /\ XmlLabelled = {} /\ SniffXml = {}
    /\ PlainLabelled = {} /\ SniffAcl = {}
    /\ Len(PartsOfBody) = 3
    /\ extracted.e = 1
    /\ extracted.a = 2
    /\ PartsOfBody[3].body = PartsOfBody[1].body

(***************************************************************************)
(* ACL codec: properties                                                   *)
(***************************************************************************)
\* a message built here has been serialized and the string parsed
RoundTripped == msg # NoMessage /\ parsed.error # "none"
SameSlots ==
    /\ performative_upper(parsed.msg) = performative_upper(msg)
    /\ parsed.msg.language = msg.language
    /\ parsed.msg.conversation_id = msg.conversation_id
    /\ parsed.msg.reply_with = msg.reply_with
\* the content is the original string, or that string in one pair of parentheses
SameContent ==
    IF msg.content = None THEN parsed.msg.content = None
    ELSE /\ parsed.msg.content # None
         /\ parsed.msg.content[1] \in
               {msg.content[1], <<LParen>> \o msg.content[1] \o <<RParen>>}

\* C18: for every message m, parse(dumps(m)) raises nothing and returns a
\* message with the performative and the slots of m, its content being the
\* content of m up to the JADE wrapping.
C18_AsStated == RoundTripped => (parsed.error = "" /\ SameSlots /\ SameContent)

\* C18 witness: the content U+00E9 came back from parse(dumps(m)) as the two
\* letters U+00C3 U+00A9
C18_Witness ==
    /\ RoundTripped
    /\ msg.content = Some(<<EAcute>>)
    /\ parsed.error = ""
    /\ parsed.msg.content = Some(<<"U+00C3", "U+00A9">>)

\* the ACL string that dumps must produce when the content slot holds c
RECURSIVE Escaped(_)
Escaped(c) ==
    IF c = <<>> THEN <<>>
    ELSE (IF Head(c) = Quote THEN <<Backslash, Quote>> ELSE <<Head(c)>>)
         \o Escaped(Tail(c))
Rendered(m, c) ==
    <<LParen, performative_upper(m), ":content", Quote>> \o Escaped(c) \o <<Quote>>
HasPrefix(text, pre) == Len(text) >= Len(pre) /\ SubSeq(text, 1, Len(pre)) = pre
\* the language starts with fipa-sl, in any case
FipaSlLanguage(m) == m.language \in {Some("fipa-sl0"), Some("FIPA-SL0")}
\* the content string, once the quotes of an already quoted string are off
Bare(c) ==
    IF Len(c) >= 2 /\ c[1] = Quote /\ c[Len(c)] = Quote
    THEN SubSeq(c, 2, Len(c) - 1) ELSE c
RECURSIVE NoLeadingBlanks(_)
NoLeadingBlanks(c) ==
    IF c # <<>> /\ Head(c) = Space THEN NoLeadingBlanks(Tail(c)) ELSE c
DoublyParenthesized(c) ==
    HasPrefix(NoLeadingBlanks(c), <<LParen, LParen>>)
Wrapped(c) == <<LParen>> \o c \o <<RParen>>
\* text is the serialization of m, with or without the extra pair, as the
\* rule asks
WrapRule(m, text) ==
    m.content # None =>
        IF FipaSlLanguage(m) /\ ~DoublyParenthesized(Bare(m.content[1]))
        THEN HasPrefix(text, Rendered(m, Wrapped(Bare(m.content[1]))))
        ELSE HasPrefix(text, Rendered(m, Bare(m.content[1])))
\* dumps wrapped the content of msg, and the result was parsed and serialized
WrappedThenRedumped ==
    /\ msg # NoMessage /\ msg.content # None
    /\ FipaSlLanguage(msg) /\ ~DoublyParenthesized(Bare(msg.content[1]))
    /\ again # <<>>

\* C19 as stated: the rule, and a message parsed from a wrapped serialization
\* serializes to that same string again
C19_AsStated ==
    /\ (msg # NoMessage /\ wire # <<>>) => WrapRule(msg, wire)
    /\ WrappedThenRedumped => again = wire

\* C19: dumps puts the content in exactly one extra pair of parentheses when
\* the language starts with fipa-sl and the content does not already start
\* with two opening parentheses, and adds none otherwise, for the first
\* serialization and for the serialization of a parsed message alike; a
\* message parsed from a wrapped serialization is not wrapped again when the
\* original content began with an opening parenthesis.
C19_WrapsOnce ==
    /\ (msg # NoMessage /\ wire # <<>>) => WrapRule(msg, wire)
    /\ again # <<>> => WrapRule(parsed.msg, again)
    /\ (WrappedThenRedumped /\ HasPrefix(Bare(msg.content[1]), <<LParen>>))
         => HasPrefix(again, Rendered(parsed.msg, parsed.msg.content[1]))

\* C19 witness: a wrapped serialization was parsed and serialized again
\* without a second pair, the content starting with a parenthesis
C19_Witness ==
    /\ WrappedThenRedumped
    /\ msg.content = Some(<<LParen, "q", RParen>>)
    /\ parsed.msg.content = Some(<<LParen, LParen, "q", RParen, RParen>>)
    /\ again = wire

\* the text is well formed (wire[2] is its performative) and names no
\* content slot
SlotsOf(text) == {text[k] : k \in 1..Len(text)} \cap SlotNames
LacksContent ==
    /\ wire # <<>>
    /\ parsed.error # "none"
    /\ ParseTree(wire).error = ""
    /\ lower(wire[2]) \in {"inform", "request"}
    /\ ":content" \notin SlotsOf(wire)

\* C20: parse of a well-formed inform or request without a content slot
\* raises an error that names the content slot and returns no message, not
\* even one holding the slots that were present.
C20_MissingContentFails ==
    LacksContent =>
        /\ parsed.error = "ValueError"
        /\ parsed.why = "missing"
        /\ parsed.missing = {":content"}
        /\ parsed.msg = NoMessage
        /\ again = <<>>

\* C20 witness: a request that carries a language and no content was rejected
C20_Witness ==
    /\ LacksContent
    /\ lower(wire[2]) = "request"
    /\ ":language" \in SlotsOf(wire)
    /\ parsed.missing = {":content"}

\* the body was built from msg for this destination, taken apart and parsed
Received(to) ==
    /\ body = build_multipart(to, SourceName, msg)
    /\ parsed.error # "none"

\* C17: the body and boundary of build_multipart, passed through
\* _extract_envelope_acl, Envelope.from_xml and parse, give an envelope whose
\* to-name is the destination's name and a message whose content is the
\* original content.
C17_AsStated ==
    \A to \in AgentNames :
        Received(to) =>
            /\ extracted.error = ""
            /\ Envelope_from_xml(extracted.env_txt) = ""
            /\ Envelope_to_name(extracted.env_txt) = to
            /\ parsed.error = ""
            /\ parsed.msg.content = msg.content

\* C17 witness: the envelope came through with the destination's name while
\* the content of two backslashes arrived as one
C17_Witness ==
    \E to \in AgentNames :
        /\ Received(to)
        /\ Envelope_to_name(extracted.env_txt) = to
        /\ msg.content = Some(<<Backslash, Backslash>>)
        /\ msg.language = None
        /\ parsed.error = ""
        /\ parsed.msg.content = Some(<<Backslash>>)

\* the parameters of the text, in the order written: its slots whose
\* lower-cased name is neither a FIPA slot nor anything else parse knows
TreeParams == ParseTree(wire).params
UnknownAt(n) == lower(TreeParams[n].k) \notin ALLOWED_ROOT
ValuesOf(lname) ==
    {TreeParams[n].v.val : n \in {j \in DOMAIN TreeParams : lower(TreeParams[j].k) = lname}}
StoredUnder(lname) ==
    {parsed.msg.user_params[n].v :
        n \in {j \in DOMAIN parsed.msg.user_params : parsed.msg.user_params[j].k = lname}}
ParsedText ==
    /\ wire # <<>>
    /\ parsed.error # "none"
    /\ ParseTree(wire).error = ""

SlRoundTripped == ast # NotLoaded /\ sl_loaded # NotLoaded

\* C22 (as stated): for every SL0 AST value of the supported variants,
\* loads(dumps(v)) is structurally equal to v.
C22_AsStated == SlRoundTripped => sl_loaded = ast

\* the service description named "my service" came back named "my"
C22_Witness ==
    /\ SlRoundTripped
    /\ ast.t = "sd" /\ ast.name = Some(PyStr(<<"my", "service">>))
    /\ sl_loaded.t = "sd" /\ sl_loaded.name = Some(PyStr(<<"my">>))

\* the list a loaded value holds in a slot
ListOf(v, slot) ==
    CASE slot = ":addresses" -> v.addresses
      [] slot = ":languages" -> v.languages
      [] slot = ":ontologies" -> v.ontologies
      [] slot = ":protocols" -> v.protocols
      [] OTHER -> v.ownership
\* the elements as Python strings
RECURSIVE AsStrings(_)
AsStrings(elems) ==
    IF elems = <<>> THEN <<>> ELSE << <<Head(elems)>> >> \o AsStrings(Tail(elems))
\* the texts with this slot, wrapper and elements
TextsOf(slot, w, elems) ==
    {RawText(slot, w, elems)}
    \cup (IF slot \in SdListSlots THEN {RawSdText(slot, w, elems)} ELSE {})
LoadedFrom(slot, w, elems) ==
    /\ sl_src # None
    /\ sl_src[1] \in TextsOf(slot, w, elems)
    /\ sl_loaded # NotLoaded
\* the wrapper FIPA gives the slot: sequence for addresses, set for the rest
OwnWrapper(slot) == IF slot = ":addresses" THEN "sequence" ELSE "set"

\* C23 (as stated): each of :addresses, :languages, :ontologies, :protocols,
\* :ownership accepts a (sequence ...) wrapper, a (set ...) wrapper or a bare
\* list, in all three cases yielding the ordered list of the element strings
\* without the wrapper keyword.
C23_AsStated ==
    \A slot \in ListSlots, w \in {"sequence", "set", "bare"}, elems \in SlElems :
        LoadedFrom(slot, w, elems) => ListOf(sl_loaded, slot) = AsStrings(elems)

\* C23 (amended): :addresses accepts (sequence ...) or a bare list, the four
\* other slots accept (set ...) or a bare list, the keyword in any letter
\* case, and yield the ordered element strings; under the other wrapper the
\* keyword stays in the list as its first element.
C23_OwnWrapperStripped ==
    \A slot \in ListSlots, w \in Wrappers, elems \in SlElems :
        LoadedFrom(slot, w, elems) =>
            ListOf(sl_loaded, slot) =
                IF w = "bare" \/ sl_lower(w) = OwnWrapper(slot)
                THEN AsStrings(elems)
                ELSE << <<w>> >> \o AsStrings(elems)

\* :addresses (set a b) was loaded as the three strings set, a, b
C23_Witness ==
    /\ LoadedFrom(":addresses", "set", <<"a", "b">>)
    /\ sl_loaded.t = "aid"
    /\ sl_loaded.addresses = << <<"set">>, <<"a">>, <<"b">> >>

(***************************************************************************)
(* Envelope: properties                                                    *)
(***************************************************************************)
\* two dates of the same minute that differ by less than one second
MicrosOf(d) == d.second * 1000000 + d.microsecond
WithinOneSecond(a, b) ==
    /\ a.year = b.year /\ a.month = b.month /\ a.day = b.day
    /\ a.hour = b.hour /\ a.minute = b.minute
    /\ MicrosOf(a) - MicrosOf(b) < 1000000
    /\ MicrosOf(b) - MicrosOf(a) < 1000000
SameInstant(back, date) ==
    /\ back # BadDate
    /\ WithinOneSecond(back, astimezone_utc(date))

\* C24 (as stated): Envelope.from_xml(e.to_xml()) returns the same to and
\* from identifiers (name and address list), the same payload_length and
\* acl_representation, and a date that differs by less than one second.
C24_AsStated ==
    env_back # NotLoaded =>
        /\ env_back.to_ = env_obj.to_
        /\ env_back.from_ = env_obj.from_
        /\ env_back.payload_length = env_obj.payload_length
        /\ env_back.acl_rep = env_obj.acl_rep
        /\ SameInstant(env_back.date, env_obj.date)

\* an envelope dated in the year 999 came back dated in the year 9990
C24_Witness ==
    /\ env_back # NotLoaded
    /\ env_obj.date.year = 999
    /\ env_back.date # BadDate
    /\ env_back.date.year = 9990

(***************************************************************************)
(* Conversation manager: the index between two handlers of the loop         *)
(***************************************************************************)
\* the loop still has to run the done-callback of this conversation's future
CallbackPending(c) == \E i \in DOMAIN callbacks : callbacks[i] = c

\* C25 (as stated): whenever control is back in the event loop, each
\* conversation still in the index has an unresolved handle.
C25_AsStated == \A c \in DOMAIN convs : ~done(futures[c])

\* C25 (amended): whenever control is back in the event loop, a conversation
\* in the index whose handle is resolved was resolved by the timeout, never
\* by a reply, and the done-callback that removes it is scheduled.
C25_ResolvedOnlyAwaitingCallback ==
    \A c \in DOMAIN convs :
        done(futures[c]) =>
            /\ futures[c].status = "exception"
            /\ CallbackPending(c)

\* a timed-out conversation is in the index, its done-callback not yet run
C25_Witness ==
    \E c \in DOMAIN convs :
        /\ futures[c] = TimedOut
        /\ CallbackPending(c)

\* C28 (as stated): if the send function raises during send_request, the
\* conversation registered by that call does not remain in the index.
C28_AsStated == \A c \in failed : c \notin DOMAIN convs

\* the send of a request without timeout raised and its conversation is in
\* the index, pending, with no timer left to remove it
C28_Witness ==
    \E c \in DOMAIN convs :
        /\ c \in failed
        /\ c \notin timers
        /\ convs[c].state = "pending"
        /\ ~done(futures[c])

(***************************************************************************)
(* The pump: handlers, the conversation manager and the events queue       *)
(***************************************************************************)
\* the events the pump's log accounts for: one for each pair it applied
RECURSIVE EventsOf(_)
EventsOf(log) ==
    IF log = <<>> THEN <<>>
    ELSE IF log[Len(log)].what = "applied"
         THEN Append(EventsOf(SubSeq(log, 1, Len(log) - 1)),
                     [req |-> log[Len(log)].req, acl |-> log[Len(log)].acl])
         ELSE EventsOf(SubSeq(log, 1, Len(log) - 1))

\* the pump's log gives each pair to the first rule that matches it, or to no
\* rule when none matches
FirstMatchLogged ==
    \A i \in DOMAIN taken :
        /\ \A j \in DOMAIN taken : taken[j].req = taken[i].req => j = i
        /\ taken[i].what \in {"handled", "applied"}
        /\ taken[i].what = "handled" =>
               /\ taken[i].rule \in DOMAIN rules
               /\ match(rules[taken[i].rule], taken[i].acl)
               /\ \A k \in 1..(taken[i].rule - 1) : ~match(rules[k], taken[i].acl)
        /\ taken[i].what = "applied" =>
               /\ taken[i].rule = 0
               /\ \A k \in DOMAIN rules : ~match(rules[k], taken[i].acl)

\* this step is a round of the pump; its entry in the log
PumpTook == Len(taken') = Len(taken) + 1
NowTaken == taken'[Len(taken')]

\* a round that spawns a handler leaves the events queue and the manager as
\* they were; a round that spawns none puts exactly one event, for that pair
HandledXorEvent ==
    PumpTook =>
        /\ NowTaken.what = "handled" =>
               /\ events' = events
               /\ convs' = convs /\ futures' = futures /\ callbacks' = callbacks
        /\ NowTaken.what = "applied" =>
               events' = Append(events, [req |-> NowTaken.req, acl |-> NowTaken.acl])

\* C26: every pair the pump takes from the inbox goes either to exactly one
\* handler, the first rule whose template matches, or into exactly one MsgEvent
\* on the events queue, never both; a pair given to a handler leaves the
\* conversation manager's conversations and handles untouched.
C26_HandlerXorEvent ==
    /\ [](FirstMatchLogged /\ events = EventsOf(taken))
    /\ [][HandledXorEvent]_vars

\* C26 witness: with a rule for INFORM, the AGREE became an event and advanced
\* the conversation, the INFORM went to the handler, and the conversation is
\* still waiting for its second reply
C26_Witness ==
    /\ rules = <<OnInform>>
    /\ Len(taken) = 2 /\ Len(events) = 1
    /\ taken[1].what = "applied" /\ performative_upper(taken[1].acl) = "AGREE"
    /\ taken[2].what = "handled" /\ taken[2].rule = 1
    /\ performative_upper(taken[2].acl) = "INFORM"
    /\ events[1].req = taken[1].req
    /\ EndpointConv \in DOMAIN convs
    /\ convs[EndpointConv].state = "agreed"
    /\ NotDone(futures[EndpointConv])

\* this step is a round of the pump that spawned no handler for a message of
\* conversation c with one of the performatives perfs, and put its event
PumpApplies(c, perfs) ==
    /\ PumpTook
    /\ NowTaken.what = "applied"
    /\ NowTaken.acl.conversation_id = Some(c)
    /\ performative_upper(NowTaken.acl) \in perfs
    /\ events' = Append(events, [req |-> NowTaken.req, acl |-> NowTaken.acl])

\* the pump has already taken an AGREE of conversation c from the inbox
AgreeTaken(c) ==
    \E i \in DOMAIN taken :
        /\ taken[i].acl.conversation_id = Some(c)
        /\ performative_upper(taken[i].acl) = "AGREE"

\* C29 as stated: when the pump puts the event of a final reply of a
\* conversation that send_request opened (a REFUSE as its first reply, or an
\* INFORM or FAILURE that follows an AGREE), the handle of that conversation
\* is resolved by then.
C29_AsStated ==
    [][\A c \in DOMAIN futures :
          (\/ PumpApplies(c, {"REFUSE"}) /\ ~AgreeTaken(c)
           \/ PumpApplies(c, {"INFORM", "FAILURE"}) /\ AgreeTaken(c))
          => done(futures'[c])]_vars

\* C29: a round of the pump that spawns no handler applies on_message before
\* it puts the event: when the event is on the queue the manager is in the
\* state on_message left.  The event of a REFUSE that found the conversation
\* pending, or of an INFORM or FAILURE that found it agreed, is therefore on
\* the queue only when the handle is resolved, with that message unless the
\* handle was resolved before.
C29_ResolvedBeforeEvent ==
    [][/\ (PumpTook /\ NowTaken.what = "applied") =>
               /\ convs' = on_message(Mgr, NowTaken.acl).convs
               /\ futures' = on_message(Mgr, NowTaken.acl).futures
       /\ \A c \in DOMAIN convs :
              (\/ PumpApplies(c, {"REFUSE"}) /\ convs[c].state = "pending"
               \/ PumpApplies(c, {"INFORM", "FAILURE"}) /\ convs[c].state = "agreed")
              => /\ done(futures'[c])
                 /\ NotDone(futures[c]) =>
                        /\ futures'[c].status = "result"
                        /\ futures'[c].msg = NowTaken.acl]_vars

\* C29 witness: AGREE then FAILURE went through the pump without a handler;
\* the FAILURE's event is on the queue and the handle holds the FAILURE
C29_Witness ==
    /\ Len(events) = 2
    /\ performative_upper(events[1].acl) = "AGREE"
    /\ performative_upper(events[2].acl) = "FAILURE"
    /\ events[2].acl.conversation_id = Some(EndpointConv)
    /\ EndpointConv \in DOMAIN futures
    /\ futures[EndpointConv].status = "result"
    /\ futures[EndpointConv].msg = events[2].acl
    /\ EndpointConv \notin DOMAIN convs


(***************************************************************************)
(* _extract_envelope_acl: the parts the two texts come from                 *)
(***************************************************************************)
\* C27 as stated: for every body with at least two parts, the envelope text
\* and the ACL text that _extract_envelope_acl returns come from two different
\* parts.
C27_AsStated ==
    (extracted.error = "" /\ Len(_split_parts(body, "B")) >= 2)
        => extracted.e # extracted.a

\* C27 witness: a body of two parts that are distinct objects, the first one
\* an XML envelope labelled text/plain; the function returned the first part
\* as the envelope text and as the ACL text
C27_Witness ==
    /\ ~interned
    /\ Len(_split_parts(body, "B")) = 2
    /\ HasPlainType(_split_parts(body, "B")[1].hdr)
    /\ _guess_is_envelope(_split_parts(body, "B")[1].body)
    /\ extracted.error = ""
    /\ extracted.e = 1 /\ extracted.a = 1
    /\ extracted.env_txt = extracted.acl_txt


(***************************************************************************)
(* The two ConversationManager implementations compared                     *)
(***************************************************************************)
\* C30 as stated: fed the same calls without timeout, the manager of
\* peak_acl/conversation.py and the manager of peak_acl/runtime/conversation.py
\* hold the same resolved handles with the same messages and the same set of
\* conversation ids in their index.
C30_AsStated ==
    /\ DOMAIN legacy.futures = DOMAIN futures
    /\ \A c \in DOMAIN futures : legacy.futures[c] = futures[c]
    /\ DOMAIN legacy.convs = DOMAIN convs

\* C30 witness: both managers were sent a REFUSE for a pending conversation;
\* both handles hold the REFUSE, the runtime manager has dropped the
\* conversation and run its done-callback, the other manager still tracks it
C30_Witness ==
    \E c \in DOMAIN futures :
        /\ futures[c].status = "result"
        /\ performative_upper(futures[c].msg) = "REFUSE"
        /\ legacy.futures[c] = futures[c]
        /\ callbacks = <<>>
        /\ c \notin DOMAIN convs
        /\ c \in DOMAIN legacy.convs
        /\ legacy.convs[c].state = "refused"

====
